---- MODULE Spec2Model ----
(***************************************************************************)
(* Matcha matching pipeline: feature extractor, keyword and semantic       *)
(* strategies, the orchestrator's race against the 5 s timer, the request  *)
(* deduplication cache and the company insights cache, the retry wrapper   *)
(* of the AI services, the privacy validator and the ASR failure tracker.  *)
(*                                                                         *)
(* Strings that the code lower-cases or scans are sequences of one-letter  *)
(* strings; times are integers (ms); a similarity is an integer number of  *)
(* thousandths.                                                            *)
(***************************************************************************)
EXTENDS Integers, Sequences, FiniteSets, TLC

VARIABLES
    \* ---- MatchingOrchestrator.findMatches (one request) ----
    profile,        \* the AnonymizedProfile argument
    jobs,           \* the Job[] argument
    pc,             \* position of findMatches: "idle", "racing", "done"
    sem,            \* promise of semanticStrategy.findMatches
    timer,          \* the setTimeout of timeoutPromise
    semMatches,     \* the value the semantic promise resolved with
    result,         \* the list findMatches returned
    outcome,        \* how the findMatches promise settled
    winner,         \* which branch produced the result
    kwCalls,        \* invocations of keywordStrategy.findMatches
    simCalls,       \* requests sent to the similarity API (fetch)
    \* ---- RequestDeduplicationCache ----
    now,            \* Date.now()
    dcache,         \* this.cache: hash -> CacheEntry
    pendingRequests,\* this.pendingRequests: hash -> promise (execution id)
    execs,          \* executor invocations: id -> record
    callers,        \* getOrExecute calls made so far
    \* ---- CompanyInsightsCache ----
    icache,         \* this.cache: key -> CachedInsight
    lastGet,        \* the operation just made on the cache: its arguments, the
                    \* Map before it and, for get(), what it returned
    sets,           \* history: the set() calls made so far, and whether the
                    \* entry each stored is still in the cache
    used,           \* history: the keys in the cache, least recently used
                    \* (stored or read) first
    \* ---- MatchingOrchestrator.generateCompanyInsights ----
    batches,        \* the generateCompanyInsights(jobs) calls made so far
    procs,          \* the per-job callbacks of jobs.map, in starting order
    heap,           \* the CompanyInsight objects the oracle returned, by
                    \* execution id: their mutable fields
    \* ---- POST /api/matches (one request) ----
    stage,          \* position of the handler
    yearsType,      \* typeof anonymizedProfile.yearsExperience
    validation,     \* result of validateAnonymizedProfileStructure
    response,       \* the NextResponse.json(...) the handler returned
    audit,          \* auditLogger: the events logged, oldest first
    \* ---- AIService.withRetry (one wrapped call) ----
    config,         \* this.config: maxRetries and retryDelayMs
    rpc,            \* position of withRetry
    attempt,        \* the loop variable of withRetry
    requests,       \* the external request each fn() call started, in order
    slept,          \* history: the delays passed to sleep(), in order
    lastError,      \* the error the latest attempt raised
    \* ---- privacyValidator ----
    lastIndex,      \* lastIndex of EMAIL_PATTERN, PHONE_PATTERN, SSN_PATTERN
    seen,           \* history: <<text, result>> of the containsPIIPatterns calls
    asserted,       \* history: the latest assertNoPII call and whether it threw
    \* ---- asrFailureTracker and SpeechInput ----
    attempts,       \* this.attempts
    consecutiveFailures, \* this.consecutiveFailures
    isDisabled,     \* the isDisabled state of SpeechInput
    recorder,       \* "none", or "recording" between start and onstop
    clock,          \* Date.now() in minutes
    reenabled       \* history: resetFailureTracking() ran and no failed
                    \* attempt was tracked since

orchVars == <<profile, jobs, pc, sem, timer, semMatches, result, outcome,
              winner, kwCalls, simCalls>>
dedupVars == <<dcache, pendingRequests, execs, callers>>
insightVars == <<icache, lastGet, sets, used>>
genVars == <<batches, procs, heap>>
routeVars == <<stage, yearsType, validation, response, audit>>
retryVars == <<config, rpc, attempt, requests, slept, lastError>>
piiVars == <<lastIndex, seen, asserted>>
asrVars == <<attempts, consecutiveFailures, isDisabled, recorder, clock, reenabled>>
utilVars == <<retryVars, piiVars, asrVars>>
vars == <<orchVars, now, dedupVars, insightVars, genVars, routeVars, utilVars>>

(***************************************************************************)
(* Bounds of the model.                                                    *)
(***************************************************************************)
MaxJobs == 21
MaxTime == 2
MaxExecs == 2
MaxCallers == 3
MaxSets == 3
MaxSkills == 5
MaxIndustries == 2
MaxAttempts == 6
MaxClock == 6

(***************************************************************************)
(* Strings.                                                                *)
(***************************************************************************)
UpperChars ==
    <<"A","B","C","D","E","F","G","H","I","J","K","L","M",
      "N","O","P","Q","R","S","T","U","V","W","X","Y","Z">>

LowerChars ==
    <<"a","b","c","d","e","f","g","h","i","j","k","l","m",
      "n","o","p","q","r","s","t","u","v","w","x","y","z">>

ToLowerChar(c) ==
    IF \E i \in 1..26 : UpperChars[i] = c
    THEN LowerChars[CHOOSE i \in 1..26 : UpperChars[i] = c]
    ELSE c

ToLowerCase(s) == [i \in 1..Len(s) |-> ToLowerChar(s[i])]

Includes(s, sub) ==
    \E i \in 0..(Len(s) - Len(sub)) : SubSeq(s, i + 1, i + Len(sub)) = sub

\* the one element of a singleton set
Only(S) == CHOOSE y \in S : TRUE

\* Array.prototype.filter: the elements of s whose flag is set, in order
Filter(s, keep) ==
    Only({ [k \in 1..Cardinality(idx) |->
               s[CHOOSE i \in idx : Cardinality({j \in idx : j < i}) = k - 1]] :
             idx \in { {i \in 1..Len(s) : keep[i]} } })

CountTrue(bs) == Cardinality({i \in 1..Len(bs) : bs[i]})

Min(a, b) == IF a < b THEN a ELSE b

\* Array.prototype.join: the parts in order with sep between neighbours
RECURSIVE Join(_, _)
Join(parts, sep) ==
    IF Len(parts) = 0 THEN <<>>
    ELSE IF Len(parts) = 1 THEN parts[1]
    ELSE parts[1] \o sep \o Join(Tail(parts), sep)

(***************************************************************************)
(* MatchFeatureExtractor.                                                  *)
(***************************************************************************)
extractSkillMatch(p, job) ==
    Only({ [matched |-> matched,
            score |-> Len(matched) * 10,
            totalPossible |-> Len(job.requiredSkills) * 10] :
             matched \in { Filter(p.skills,
                 [i \in 1..Len(p.skills) |->
                     \E k \in 1..Len(job.requiredSkills) :
                         ToLowerCase(job.requiredSkills[k]) = ToLowerCase(p.skills[i])]) } })

\* variant: the lead class is tried before the senior class
LevelOfText_LeadBeforeSenior(combined) ==
    IF \/ Includes(combined, <<"e","n","t","r","y">>)
       \/ Includes(combined, <<"i","n","t","e","r","n">>)
       \/ Includes(combined, <<"g","r","a","d","u","a","t","e">>)
    THEN "entry"
    ELSE IF \/ Includes(combined, <<"j","u","n","i","o","r">>)
            \/ Includes(combined, <<"j","r">>)
    THEN "junior"
    ELSE IF \/ Includes(combined, <<"l","e","a","d">>)
            \/ Includes(combined, <<"p","r","i","n","c","i","p","a","l">>)
            \/ Includes(combined, <<"a","r","c","h","i","t","e","c","t">>)
    THEN "lead"
    ELSE IF \/ Includes(combined, <<"s","e","n","i","o","r">>)
            \/ Includes(combined, <<"s","r">>)
            \/ Includes(combined, <<"l","e","a","d">>)
            \/ Includes(combined, <<"p","r","i","n","c","i","p","a","l">>)
    THEN "senior"
    ELSE IF \/ Includes(combined, <<"m","i","d">>)
            \/ Includes(combined, <<"m","i","d","d","l","e">>)
    THEN "mid"
    ELSE "unknown"

LevelOfText(combined) ==
    IF \/ Includes(combined, <<"e","n","t","r","y">>)
       \/ Includes(combined, <<"i","n","t","e","r","n">>)
       \/ Includes(combined, <<"g","r","a","d","u","a","t","e">>)
    THEN "entry"
    ELSE IF \/ Includes(combined, <<"j","u","n","i","o","r">>)
            \/ Includes(combined, <<"j","r">>)
    THEN "junior"
    ELSE IF \/ Includes(combined, <<"s","e","n","i","o","r">>)
            \/ Includes(combined, <<"s","r">>)
            \/ Includes(combined, <<"l","e","a","d">>)
            \/ Includes(combined, <<"p","r","i","n","c","i","p","a","l">>)
    THEN "senior"
    ELSE IF \/ Includes(combined, <<"l","e","a","d">>)
            \/ Includes(combined, <<"p","r","i","n","c","i","p","a","l">>)
            \/ Includes(combined, <<"a","r","c","h","i","t","e","c","t">>)
    THEN "lead"
    ELSE IF \/ Includes(combined, <<"m","i","d">>)
            \/ Includes(combined, <<"m","i","d","d","l","e">>)
    THEN "mid"
    ELSE "unknown"

\* variant: only the title is scanned
extractJobLevel_TitleOnly(job) ==
    Only({ LevelOfText(combined) : combined \in { ToLowerCase(job.title) } })

extractJobLevel(job) ==
    Only({ LevelOfText(combined) :
             combined \in { ToLowerCase(job.title) \o <<" ">> \o ToLowerCase(job.role)
                            \o <<" ">> \o ToLowerCase(job.description) } })

alignmentMap ==
    [entry  |-> [entry |-> "entry", junior |-> "entry", mid |-> "mismatch",
                 senior |-> "mismatch", lead |-> "mismatch", unknown |-> "entry"],
     junior |-> [entry |-> "entry", junior |-> "junior", mid |-> "junior",
                 senior |-> "mismatch", lead |-> "mismatch", unknown |-> "junior"],
     mid    |-> [entry |-> "mismatch", junior |-> "junior", mid |-> "mid",
                 senior |-> "mid", lead |-> "mismatch", unknown |-> "mid"],
     senior |-> [entry |-> "mismatch", junior |-> "mismatch", mid |-> "mid",
                 senior |-> "senior", lead |-> "senior", unknown |-> "senior"],
     lead   |-> [entry |-> "mismatch", junior |-> "mismatch", mid |-> "mismatch",
                 senior |-> "senior", lead |-> "lead", unknown |-> "lead"]]

\* variant: two years or less are judged by the years even when the job level
\* is known
extractExperienceMatch_YearsFirst(p, job) ==
    LET jobLevel == extractJobLevel(job)
        profileLevel == p.seniority
        alignment ==
            IF jobLevel = "unknown" \/ p.yearsExperience <= 2
            THEN IF p.yearsExperience <= 2
                 THEN (IF profileLevel \in {"entry", "junior"} THEN "entry" ELSE "mismatch")
                 ELSE IF p.yearsExperience <= 5
                 THEN (IF profileLevel \in {"junior", "mid"} THEN "mid" ELSE "mismatch")
                 ELSE (IF profileLevel \in {"mid", "senior", "lead"} THEN "senior" ELSE "mismatch")
            ELSE alignmentMap[profileLevel][jobLevel]
    IN [profileYears |-> p.yearsExperience,
        profileLevel |-> profileLevel,
        jobLevel |-> jobLevel,
        alignment |-> alignment]

extractExperienceMatch(p, job) ==
    LET jobLevel == extractJobLevel(job)
        profileLevel == p.seniority
        alignment ==
            IF jobLevel = "unknown"
            THEN IF p.yearsExperience <= 2
                 THEN (IF profileLevel \in {"entry", "junior"} THEN "entry" ELSE "mismatch")
                 ELSE IF p.yearsExperience <= 5
                 THEN (IF profileLevel \in {"junior", "mid"} THEN "mid" ELSE "mismatch")
                 ELSE (IF profileLevel \in {"mid", "senior", "lead"} THEN "senior" ELSE "mismatch")
            ELSE alignmentMap[profileLevel][jobLevel]
    IN [profileYears |-> p.yearsExperience,
        profileLevel |-> profileLevel,
        jobLevel |-> jobLevel,
        alignment |-> alignment]

\* variant: only a flexible profile makes a partial remote match
extractPreferenceMatch_ProfileFlexibleOnly(p, job) ==
    [role |-> \E i \in 1..Len(p.desiredRoles) :
                  ToLowerCase(p.desiredRoles[i]) = ToLowerCase(job.role),
     industry |-> [i \in 1..Len(p.industries) |->
                      ToLowerCase(p.industries[i]) = ToLowerCase(job.industry)],
     companySize |-> p.preferredCompanySize = job.companySize,
     remote |-> IF p.remotePreference = job.remotePreference THEN "true"
                ELSE IF p.remotePreference = "flexible"
                THEN "partial"
                ELSE "false"]

\* remote is "true", "partial" or "false" (boolean | "partial" in the code)
extractPreferenceMatch(p, job) ==
    [role |-> \E i \in 1..Len(p.desiredRoles) :
                  ToLowerCase(p.desiredRoles[i]) = ToLowerCase(job.role),
     industry |-> [i \in 1..Len(p.industries) |->
                      ToLowerCase(p.industries[i]) = ToLowerCase(job.industry)],
     companySize |-> p.preferredCompanySize = job.companySize,
     remote |-> IF p.remotePreference = job.remotePreference THEN "true"
                ELSE IF p.remotePreference = "flexible" \/ job.remotePreference = "flexible"
                THEN "partial"
                ELSE "false"]

calculateScoreBreakdown(p, job) ==
    Only({ [skills |-> skillMatch.score,
            role |-> IF preferenceMatch.role THEN 20 ELSE 0,
            industry |-> CountTrue(preferenceMatch.industry) * 15,
            companySize |-> IF preferenceMatch.companySize THEN 10 ELSE 0,
            remote |-> IF preferenceMatch.remote = "true" THEN 10
                       ELSE IF preferenceMatch.remote = "partial" THEN 5 ELSE 0,
            experience |-> IF experienceMatch.alignment # "mismatch" THEN 5 ELSE 0] :
             skillMatch \in { extractSkillMatch(p, job) },
             preferenceMatch \in { extractPreferenceMatch(p, job) },
             experienceMatch \in { extractExperienceMatch(p, job) } })

buildMatchFeatures(p, job) ==
    [skillMatch |-> extractSkillMatch(p, job),
     experienceMatch |-> extractExperienceMatch(p, job),
     preferenceMatch |-> extractPreferenceMatch(p, job),
     scoreBreakdown |-> calculateScoreBreakdown(p, job)]

(***************************************************************************)
(* Array.prototype.sort((a, b) => b.score - a.score): stable, descending.  *)
(***************************************************************************)
\* position of ms[i] after the sort: behind every higher score and behind
\* the equal scores that precede it
SortRank(ms, i) ==
    1 + Cardinality({j \in 1..Len(ms) :
                        \/ ms[j].score > ms[i].score
                        \/ (ms[j].score = ms[i].score /\ j < i)})

\* variant: among equal scores the later element comes first
SortByScoreDesc_TiesReversed(ms) ==
    [k \in 1..Len(ms) |->
        ms[CHOOSE i \in 1..Len(ms) :
              k = 1 + Cardinality({j \in 1..Len(ms) :
                                      \/ ms[j].score > ms[i].score
                                      \/ (ms[j].score = ms[i].score /\ j > i)})]]

SortByScoreDesc(ms) ==
    [k \in 1..Len(ms) |-> ms[CHOOSE i \in 1..Len(ms) : SortRank(ms, i) = k]]

Slice(s, from, to) == SubSeq(s, from + 1, Min(to, Len(s)))

(***************************************************************************)
(* KeywordMatchingStrategy.                                                *)
(***************************************************************************)
\* A text is a sequence whose elements are the literal pieces of the
\* template strings and the characters of the interpolated values.
alignmentText ==
    [entry |-> "suitable for entry-level", junior |-> "aligned with junior-level",
     mid |-> "aligned with mid-level", senior |-> "aligned with senior-level",
     lead |-> "aligned with lead-level"]

\* the sentences both strategies push for the factors that matched, in order;
\* skillsLead is the opening of the skills sentence
factorParts(p, job, features, skillsLead) ==
    LET matched == features.skillMatch.matched
        matchedIndustries == Filter(p.industries, features.preferenceMatch.industry)
    IN (IF Len(matched) > 0
        THEN << <<skillsLead>> \o Join(matched, <<",", " ">>) >> ELSE <<>>)
       \o (IF features.preferenceMatch.role
           THEN << <<"Role matches your preferences: ">> \o job.role >> ELSE <<>>)
       \o (IF Len(matchedIndustries) > 0
           THEN << <<"Industry matches: ">> \o Join(matchedIndustries, <<",", " ">>) >>
           ELSE <<>>)
       \o (IF features.experienceMatch.alignment # "mismatch"
           THEN << <<"Experience level ",
                     alignmentText[features.experienceMatch.alignment],
                     " position">> >>
           ELSE <<>>)
       \o (IF features.preferenceMatch.companySize
           THEN << <<"Company size matches your preference: ", job.companySize>> >>
           ELSE <<>>)
       \o (IF features.preferenceMatch.remote = "true"
           THEN << <<"Remote work preference matches: ", job.remotePreference>> >>
           ELSE IF features.preferenceMatch.remote = "partial"
           THEN << <<"Remote work preference partially matches">> >>
           ELSE <<>>)

\* the generic sentences pushed while parts holds fewer than 3 sentences
genericParts(p, features, parts, withExperience) ==
    LET matchedIndustries == Filter(p.industries, features.preferenceMatch.industry)
        p1 == IF Len(features.skillMatch.matched) = 0
              THEN Append(parts, <<"Some skill overlap with job requirements">>)
              ELSE parts
        p2 == IF ~features.preferenceMatch.role /\ Len(p1) < 3
              THEN Append(p1, <<"Role may align with your career goals">>)
              ELSE p1
        p3 == IF Len(matchedIndustries) = 0 /\ Len(p2) < 3
              THEN Append(p2, <<"Industry may offer growth opportunities">>)
              ELSE p2
        p4 == IF withExperience /\ features.experienceMatch.alignment = "mismatch"
                 /\ Len(p3) < 3
              THEN Append(p3, <<"Experience level may be suitable for growth">>)
              ELSE p3
    IN IF Len(parts) < 3 THEN p4 ELSE parts

KeywordGenerateExplanation(p, job, features) ==
    Only({ IF Len(parts) = 0 THEN <<"Some alignment with your profile">>
           ELSE Join(parts, <<". ">>) :
             parts \in { genericParts(p, features, real, FALSE) :
                           real \in { factorParts(p, job, features,
                                                  "Matched on skills: ") } } })

\* variant: the experience points are left out of the total
calculateScoreFromBreakdown_NoExperience(b) ==
    b.skills + b.role + b.industry + b.companySize + b.remote

calculateScoreFromBreakdown(b) ==
    b.skills + b.role + b.industry + b.companySize + b.remote + b.experience

\* variant: isApproximate derived from the score instead of the constant true
KeywordMatch_ScoreFlag(p, job) ==
    Only({ [job |-> job,
             score |-> calculateScoreFromBreakdown(features.scoreBreakdown),
             explanation |-> KeywordGenerateExplanation(p, job, features),
             matchedSkills |-> features.skillMatch.matched,
             isApproximate |-> calculateScoreFromBreakdown(features.scoreBreakdown) < 50,
             features |-> features] :
             features \in { buildMatchFeatures(p, job) } })

KeywordMatch(p, job) ==
    Only({ [job |-> job,
             score |-> calculateScoreFromBreakdown(features.scoreBreakdown),
             explanation |-> KeywordGenerateExplanation(p, job, features),
             matchedSkills |-> features.skillMatch.matched,
             isApproximate |-> TRUE,
             features |-> features] :
             features \in { buildMatchFeatures(p, job) } })

KeywordFindMatches(p, js) ==
    Only({ Slice(SortByScoreDesc(kept), 0, 10) :
             kept \in { Filter(all, [i \in 1..Len(all) |-> all[i].score > 0]) :
                          all \in { [i \in 1..Len(jl) |-> KeywordMatch(p, jl[i])] :
                                      jl \in {js} } } })

(***************************************************************************)
(* SemanticMatchingStrategy.  A similarity is an integer number of         *)
(* thousandths; Round(a, b) is Math.round(a / b) for b > 0.                *)
(***************************************************************************)
Round(a, b) == (2 * a + b) \div (2 * b)

adjustedBreakdown(base, semanticScore) ==
    LET baseTotal == base.skills + base.role + base.industry
                     + base.companySize + base.remote + base.experience
    IN IF baseTotal > 0
       THEN [skills |-> Round(base.skills * semanticScore, baseTotal),
             role |-> Round(base.role * semanticScore, baseTotal),
             industry |-> Round(base.industry * semanticScore, baseTotal),
             companySize |-> Round(base.companySize * semanticScore, baseTotal),
             remote |-> Round(base.remote * semanticScore, baseTotal),
             experience |-> Round(base.experience * semanticScore, baseTotal)]
       ELSE [skills |-> Round(semanticScore * 40, 100),
             role |-> Round(semanticScore * 20, 100),
             industry |-> Round(semanticScore * 15, 100),
             companySize |-> Round(semanticScore * 10, 100),
             remote |-> Round(semanticScore * 10, 100),
             experience |-> Round(semanticScore * 5, 100)]

\* similarity in thousandths: > 0.7 and > 0.5 are > 700 and > 500
SemanticGenerateExplanation(p, job, similarity, features) ==
    Only({ Join(parts, <<". ">>) :
             parts \in { genericParts(p, features, real, TRUE) :
                           real \in { << <<IF similarity > 700 THEN "Strong semantic match"
                                           ELSE IF similarity > 500
                                           THEN "Good semantic alignment"
                                           ELSE "Some semantic alignment">> >>
                                      \o factorParts(p, job, features,
                                                     "Skills match: ") } } })

\* variant: the semantic strategy marks its matches approximate
SemanticMatch_Approximate(p, job, similarity) ==
    Only({ [job |-> job,
             score |-> Round(similarity, 10),
             explanation |-> SemanticGenerateExplanation(p, job, similarity, features),
             matchedSkills |-> features.skillMatch.matched,
             isApproximate |-> TRUE,
             features |-> [features EXCEPT !.scoreBreakdown =
                              adjustedBreakdown(features.scoreBreakdown,
                                                Round(similarity, 10))]] :
             features \in { buildMatchFeatures(p, job) } })

SemanticMatch(p, job, similarity) ==
    Only({ [job |-> job,
             score |-> Round(similarity, 10),
             explanation |-> SemanticGenerateExplanation(p, job, similarity, features),
             matchedSkills |-> features.skillMatch.matched,
             isApproximate |-> FALSE,
             features |-> [features EXCEPT !.scoreBreakdown =
                              adjustedBreakdown(features.scoreBreakdown,
                                                Round(similarity, 10))]] :
             features \in { buildMatchFeatures(p, job) } })

\* similarities[index] is undefined past the end of the reply: the job is dropped
SemanticFindMatches(p, js, similarities) ==
    Only({ Slice(SortByScoreDesc(kept), 0, 10) :
             kept \in { [k \in 1..Min(Len(jl), Len(sims)) |->
                           SemanticMatch(p, jl[k], sims[k])] :
                        jl \in {js}, sims \in {similarities} } })

(***************************************************************************)
(* MatchingOrchestrator.findMatches.                                       *)
(***************************************************************************)
SEMANTIC_MATCHING_TIMEOUT_MS == 5000
\* HuggingFaceService constructor: config.maxRetries
maxRetries == 2
MAX_MATCHES_TO_PROCESS == 10

jobsToProcess(js) == Slice(js, 0, Min(Len(js), MAX_MATCHES_TO_PROCESS * 2))

\* lines 40-46: the race resolved with the semantic strategy's matches
OnRaceResolved(matches) ==
    [outcome |-> "resolved", winner |-> "semantic", kw |-> 0,
     matches |-> Slice(SortByScoreDesc(matches), 0, MAX_MATCHES_TO_PROCESS)]


\* variant: the catch block rethrows instead of falling back
OnRaceRejected_Rethrow(p, js, why) ==
    [outcome |-> "rejected", winner |-> why, kw |-> 0, matches |-> <<>>]

\* lines 47-59: the race rejected (semantic error or timeout)
OnRaceRejected(p, js, why) ==
    Only({ [outcome |-> "resolved", winner |-> why, kw |-> 1,
             matches |-> Slice(SortByScoreDesc(matches), 0, MAX_MATCHES_TO_PROCESS)] :
             matches \in { KeywordFindMatches(p, js) } })

Settle(r) ==
    /\ pc' = "done"
    /\ result' = r.matches
    /\ outcome' = r.outcome
    /\ winner' = r.winner
    /\ kwCalls' = kwCalls + r.kw

\* variant: a late completion replaces the returned list
Abandoned_Overwrites ==
    /\ result' = semMatches'
    /\ UNCHANGED <<pc, outcome, winner, kwCalls>>

\* what a promise settling does once the race has already been decided
Abandoned == UNCHANGED <<pc, result, outcome, winner, kwCalls>>

(***************************************************************************)
(* Inputs of the model.                                                    *)
(***************************************************************************)
ProfilePool ==
    { [skills |-> << <<"J","S">>, <<"G","o">> >>, yearsExperience |-> 4,
       seniority |-> "senior", desiredRoles |-> << <<"D","e","v">> >>,
       preferredCompanySize |-> "small", industries |-> << <<"T","e","c","h">> >>,
       remotePreference |-> "remote"],
      [skills |-> <<>>, yearsExperience |-> 1,
       seniority |-> "entry", desiredRoles |-> <<>>,
       preferredCompanySize |-> "large", industries |-> <<>>,
       remotePreference |-> "onsite"] }

JobTemplates ==
    { [title |-> <<"S","r"," ","D","e","v">>, role |-> <<"d","e","v">>,
       description |-> <<"x">>, requiredSkills |-> << <<"j","s">>, <<"g","o">> >>,
       companySize |-> "small", industry |-> <<"t","e","c","h">>,
       remotePreference |-> "remote"],
      [title |-> <<"Q","A">>, role |-> <<"Q","A">>,
       description |-> <<>>, requiredSkills |-> << <<"G","o">> >>,
       companySize |-> "large", industry |-> <<"F","i","n">>,
       remotePreference |-> "flexible"],
      [title |-> <<"I","n","t","e","r","n">>, role |-> <<"O","p","s">>,
       description |-> <<>>, requiredSkills |-> <<>>,
       companySize |-> "medium", industry |-> <<"B","i","o">>,
       remotePreference |-> "hybrid"] }

WithId(t, i) ==
    [id |-> i, title |-> t.title, role |-> t.role, description |-> t.description,
     requiredSkills |-> t.requiredSkills, companySize |-> t.companySize,
     industry |-> t.industry, remotePreference |-> t.remotePreference]

\* n jobs with ids 1..n: template hot at position hotPos, template base elsewhere
JobList(n, base, hot, hotPos) ==
    [i \in 1..n |-> WithId(IF i = hotPos THEN hot ELSE base, i)]

\* list lengths: around 0, around the top 10, around the 20 processed
JobCounts == {0, 1, 2, 11, 12, MaxJobs - 1, MaxJobs}

JobLists ==
    { JobList(n, base, hot, hotPos) :
        n \in JobCounts, base \in JobTemplates, hot \in JobTemplates,
        hotPos \in {1, MaxJobs} }

SimValues == {0, 455, 900}

\* replies of the similarity oracle to a batch of n sentences
SimReplies(n) ==
    { [i \in 1..m |-> IF i = 1 THEN first ELSE rest] :
        m \in {n, n - 1} \cap Nat, first \in SimValues, rest \in SimValues }

(***************************************************************************)
(* Initial values of the three components.                                 *)
(***************************************************************************)
OrchIdle ==
    /\ pc = "idle"
    /\ sem = "none"
    /\ timer = "none"
    /\ semMatches = <<>>
    /\ result = <<>>
    /\ outcome = "none"
    /\ winner = "none"
    /\ kwCalls = 0
    /\ simCalls = 0

DedupEmpty ==
    /\ dcache = <<>>
    /\ pendingRequests = <<>>
    /\ execs = <<>>
    /\ callers = <<>>

NoGet == [op |-> "none"]

InsightEmpty ==
    /\ icache = <<>>
    /\ lastGet = NoGet
    /\ sets = <<>>
    /\ used = <<>>

GenEmpty ==
    /\ batches = <<>>
    /\ procs = <<>>
    /\ heap = <<>>

NoValidation == [isValid |-> FALSE, errors |-> <<>>]

NoResponse == [status |-> 0]

RouteIdle ==
    /\ stage = "idle"
    /\ yearsType = "number"
    /\ validation = NoValidation
    /\ response = NoResponse
    /\ audit = <<>>

NoConfig == [maxRetries |-> 0, retryDelayMs |-> 0]

RetryIdle ==
    /\ config = NoConfig
    /\ rpc = "idle"
    /\ attempt = 0
    /\ requests = <<>>
    /\ slept = <<>>
    /\ lastError = "none"

PiiIdle ==
    /\ lastIndex = [email |-> 0, phone |-> 0, ssn |-> 0]
    /\ seen = {}
    /\ asserted = [called |-> FALSE]

AsrIdle ==
    /\ attempts = <<>>
    /\ consecutiveFailures = 0
    /\ isDisabled = FALSE
    /\ recorder = "none"
    /\ clock = 0
    /\ reenabled = FALSE

UtilIdle == RetryIdle /\ PiiIdle /\ AsrIdle

(***************************************************************************)
(* One findMatches(profile, jobs) request.                                 *)
(***************************************************************************)
InitOrch ==
    /\ profile \in ProfilePool
    /\ jobs \in JobLists
    /\ OrchIdle
    /\ now = 0
    /\ DedupEmpty
    /\ InsightEmpty
    /\ GenEmpty
    /\ RouteIdle
    /\ UtilIdle

\* lines 27-38: both promises of the race are created; creating the semantic
\* one runs calculateSimilarities up to its first fetch
StartRace ==
    /\ pc' = "racing"
    /\ sem' = "pending"
    /\ timer' = "armed"
    /\ simCalls' = simCalls + 1
    /\ UNCHANGED <<semMatches, result, outcome, winner, kwCalls>>

FindMatchesStart ==
    /\ pc = "idle"
    /\ StartRace
    /\ UNCHANGED <<profile, jobs>>
    /\ UNCHANGED <<now, dedupVars, insightVars, genVars, routeVars, utilVars>>

\* the similarity oracle answers and semanticStrategy.findMatches resolves
SemanticResolves ==
    /\ sem = "pending"
    /\ \E reply \in SimReplies(Len(jobsToProcess(jobs))) :
          \E matches \in { SemanticFindMatches(profile, jobsToProcess(jobs), reply) } :
             /\ semMatches' = matches
             /\ sem' = "resolved"
             /\ IF pc = "racing"
                THEN \E r \in { OnRaceResolved(matches) } : Settle(r)
                ELSE Abandoned
    /\ UNCHANGED <<profile, jobs, timer, simCalls>>
    /\ UNCHANGED <<now, dedupVars, insightVars, genVars, routeVars, utilVars>>

\* AIService.withRetry, SemanticMatchingStrategy.ts lines 308-330: an attempt
\* fails with a retryable error (503, the per-attempt timeout, an abort) and
\* it is not the last attempt: sleep(retryDelayMs * 2^attempt)
AttemptFailsRetryable ==
    /\ sem = "pending"
    /\ simCalls - 1 < maxRetries
    /\ sem' = "backoff"
    /\ UNCHANGED <<profile, jobs, pc, timer, semMatches, result, outcome, winner,
                   kwCalls, simCalls>>
    /\ UNCHANGED <<now, dedupVars, insightVars, genVars, routeVars, utilVars>>

\* the sleep is over: the loop runs fn() again, which sends the request again
RetryWakes ==
    /\ sem = "backoff"
    /\ sem' = "pending"
    /\ simCalls' = simCalls + 1
    /\ UNCHANGED <<profile, jobs, pc, timer, semMatches, result, outcome, winner,
                   kwCalls>>
    /\ UNCHANGED <<now, dedupVars, insightVars, genVars, routeVars, utilVars>>

\* an attempt fails with an error that is not retryable, or the last attempt
\* fails: calculateSimilarities rejects and semanticStrategy.findMatches rethrows
SemanticRejects ==
    /\ sem = "pending"
    /\ sem' = "rejected"
    /\ UNCHANGED <<profile, jobs, timer, semMatches, simCalls>>
    /\ UNCHANGED <<now, dedupVars, insightVars, genVars, routeVars, utilVars>>
    /\ IF pc = "racing"
       THEN \E r \in { OnRaceRejected(profile, jobsToProcess(jobs), "error") } : Settle(r)
       ELSE Abandoned

\* lines 153-157: the setTimeout callback rejects the timeout promise
TimeoutFires ==
    /\ timer = "armed"
    /\ timer' = "fired"
    /\ UNCHANGED <<profile, jobs, sem, semMatches, simCalls>>
    /\ UNCHANGED <<now, dedupVars, insightVars, genVars, routeVars, utilVars>>
    /\ IF pc = "racing"
       THEN \E r \in { OnRaceRejected(profile, jobsToProcess(jobs), "timeout") } : Settle(r)
       ELSE Abandoned

NextOrch ==
    \/ FindMatchesStart
    \/ SemanticResolves
    \/ AttemptFailsRetryable
    \/ RetryWakes
    \/ SemanticRejects
    \/ TimeoutFires

SpecOrch == InitOrch /\ [][NextOrch]_vars

\* the event loop runs a ready request and every armed timer fires; nothing
\* makes the oracle answer
FairSpecOrch ==
    /\ SpecOrch
    /\ WF_vars(FindMatchesStart)
    /\ WF_vars(RetryWakes)
    /\ WF_vars(TimeoutFires)

(***************************************************************************)
(* One call of MatchFeatureExtractor.buildMatchFeatures(profile, job).     *)
(***************************************************************************)
\* profiles that differ in what they prefer, and profiles that differ in
\* seniority and years
ExtractProfiles ==
    { [skills |-> skills, yearsExperience |-> 4, seniority |-> "senior",
       desiredRoles |-> roles, preferredCompanySize |-> "small",
       industries |-> industries, remotePreference |-> remote] :
         skills \in { <<>>, << <<"J","S">> >>, << <<"J","S">>, <<"G","o">>, <<"g","o">> >> },
         roles \in { <<>>, << <<"D","e","v">> >> },
         industries \in { <<>>, << <<"T","e","c","h">> >>, << <<"B","i","o">>, <<"T","e","c","h">>, <<"t","e","c","h">> >> },
         remote \in {"remote", "hybrid", "onsite", "flexible"} }
    \cup
    { [skills |-> << <<"J","S">> >>, yearsExperience |-> years, seniority |-> seniority,
       desiredRoles |-> << <<"D","e","v">> >>, preferredCompanySize |-> "small",
       industries |-> << <<"T","e","c","h">> >>, remotePreference |-> "remote"] :
         years \in {0, 2, 3, 5, 6},
         seniority \in {"entry", "junior", "mid", "senior", "lead"} }

\* <<title, role, description>>
ExtractTexts ==
    { <<<<"S","r"," ","D","e","v">>, <<"d","e","v">>, <<"x">>>>,
      <<<<"I","n","t","e","r","n">>, <<"O","p","s">>, <<>>>>,
      <<<<"Q","A">>, <<"Q","A">>, <<>>>>,
      <<<<"T","e","c","h"," ","L","e","a","d">>, <<"D","e","v">>, <<>>>>,
      <<<<"A","r","c","h","i","t","e","c","t">>, <<"D","e","v">>, <<>>>>,
      <<<<"D","e","v">>, <<"D","e","v">>, <<"L","e","a","d"," ","I","n","t","e","r","n">>>>,
      <<<<"J","u","n","i","o","r"," ","D","e","v">>, <<"D","e","v">>, <<>>>>,
      <<<<"D","e","v">>, <<"M","i","d">>, <<>>>>,
      <<<<"P","r","i","n","c","i","p","a","l">>, <<"D","e","v">>, <<>>>>,
      <<<<"J","r"," ","A","r","c","h","i","t","e","c","t">>, <<"D","e","v">>, <<>>>>,
      <<<<"M","i","d","d","l","e"," ","A","r","c","h","i","t","e","c","t">>, <<"D","e","v">>, <<>>>>,
      <<<<"D","e","v">>, <<"D","e","v">>, <<"y","o","u"," ","w","i","l","l"," ","l","e","a","d">>>>,
      <<<<"D","e","v">>, <<"G","R","A","D","U","A","T","E">>, <<>>>>,
      <<<<"D","e","v">>, <<"D","e","v">>, <<>>>> }

ExtractJobs ==
    { [id |-> 1, title |-> t[1], role |-> t[2], description |-> t[3],
       requiredSkills |-> a.requiredSkills, companySize |-> a.companySize,
       industry |-> a.industry, remotePreference |-> a.remotePreference] :
         t \in ExtractTexts,
         a \in { [requiredSkills |-> << <<"j","s">>, <<"g","o">> >>, companySize |-> "small",
                  industry |-> <<"t","e","c","h">>, remotePreference |-> "remote"],
                 [requiredSkills |-> <<>>, companySize |-> "large",
                  industry |-> <<"F","i","n">>, remotePreference |-> "flexible"],
                 [requiredSkills |-> << <<"G","o">> >>, companySize |-> "medium",
                  industry |-> <<"b","i","o">>, remotePreference |-> "onsite"] } }

InitExtract ==
    /\ profile \in ExtractProfiles
    /\ jobs \in { <<job>> : job \in ExtractJobs }
    /\ OrchIdle
    /\ now = 0
    /\ DedupEmpty
    /\ InsightEmpty
    /\ GenEmpty
    /\ RouteIdle
    /\ UtilIdle

\* MatchFeatureExtractor.ts lines 206-213; result holds what the call returned
BuildMatchFeatures ==
    /\ pc = "idle"
    /\ pc' = "done"
    /\ result' = << [job |-> jobs[1], features |-> buildMatchFeatures(profile, jobs[1])] >>
    /\ winner' = "extractor"
    /\ outcome' = "resolved"
    /\ UNCHANGED <<profile, jobs, sem, timer, semMatches, kwCalls, simCalls,
                   now, dedupVars, insightVars, genVars, routeVars, utilVars>>

NextExtract == BuildMatchFeatures

SpecExtract == InitExtract /\ [][NextExtract]_vars

(***************************************************************************)
(* POST /api/matches: the handler that loads the anonymized profile,       *)
(* validates it, fetches the jobs and calls the orchestrator.  A profile   *)
(* object is a record: its fields are the object's own properties.         *)
(***************************************************************************)
piiFields == <<"name", "email", "phone", "address", "ssn", "userId">>

requiredFields == <<"skills", "yearsExperience", "seniority", "desiredRoles",
                    "preferredCompanySize", "industries", "remotePreference">>

\* privacyValidator.validateAnonymizedProfile; typeofYears is the typeof of
\* p.yearsExperience.  skills, desiredRoles and industries are arrays here.
validateAnonymizedProfile(p, typeofYears) ==
    Only({ [valid |-> Len(errors) = 0, errors |-> errors] :
             errors \in {
               [i \in 1..Len(found) |-> <<"PII field found", found[i]>>]
               \o [i \in 1..Len(missing) |-> <<"Required field missing", missing[i]>>]
               \o (IF "yearsExperience" \in DOMAIN p /\ typeofYears # "number"
                   THEN << <<"Field must be a number", "yearsExperience">> >>
                   ELSE <<>>) :
                 found \in { Filter(piiFields,
                               [i \in 1..Len(piiFields) |-> piiFields[i] \in DOMAIN p]) },
                 missing \in { Filter(requiredFields,
                                 [i \in 1..Len(requiredFields) |->
                                    requiredFields[i] \notin DOMAIN p]) } } })

\* privacyUtils.validateAnonymizedProfileStructure
validateAnonymizedProfileStructure(p, typeofYears) ==
    Only({ IF v.valid THEN [isValid |-> TRUE, errors |-> <<>>]
           ELSE [isValid |-> FALSE, errors |-> v.errors] :
             v \in { validateAnonymizedProfile(p, typeofYears) } })

\* AuditLogger.logDataValidation
logDataValidation(operation, passed) ==
    [eventType |-> IF passed THEN "DATA_VALIDATION_PASSED" ELSE "DATA_VALIDATION_FAILED",
     operation |-> operation, success |-> passed]

\* what ProfileRepository.getAnonymizedProfile can return for a stored row:
\* always the seven feature fields; a years_experience column the driver
\* hands over as a numeric string compares like the number it spells
RouteProfiles ==
    { [profile |-> p, yearsType |-> t] : p \in ProfilePool, t \in {"number", "string"} }

\* what JSearchService.searchJobs can return
RouteJobLists ==
    { <<>> } \cup
    { [i \in 1..Len(ts) |-> WithId(ts[i], i)] :
        ts \in { <<a>> : a \in JobTemplates } \cup
               { <<a, b>> : a \in JobTemplates, b \in JobTemplates } }

ApproximateMessage == "Some results may be approximate due to AI service limitations"

InitRoute ==
    /\ profile = <<>>
    /\ jobs = <<>>
    /\ OrchIdle
    /\ now = 0
    /\ DedupEmpty
    /\ InsightEmpty
    /\ GenEmpty
    /\ RouteIdle
    /\ UtilIdle

\* route.ts lines 27-46: the body is read and the email checked
RoutePost(email) ==
    /\ stage = "idle"
    /\ IF email = "missing"
       THEN /\ response' = [status |-> 400, error |-> "Email is required"]
            /\ stage' = "responded"
       ELSE IF email = "malformed"
       THEN /\ response' = [status |-> 400, error |-> "Invalid email format"]
            /\ stage' = "responded"
       ELSE /\ stage' = "profile"
            /\ UNCHANGED response
    /\ UNCHANGED <<yearsType, validation, audit>>
    /\ UNCHANGED <<orchVars, now, dedupVars, insightVars, genVars, utilVars>>

\* lines 48-53: no profile for the email
RouteProfileMissing ==
    /\ stage = "profile"
    /\ response' = [status |-> 404,
                    error |-> "Profile not found. Please create a profile first."]
    /\ stage' = "responded"
    /\ UNCHANGED <<yearsType, validation, audit>>
    /\ UNCHANGED <<orchVars, now, dedupVars, insightVars, genVars, utilVars>>

\* ProfileService.getAnonymizedProfileByEmail returned a profile (it validates
\* and logs, part_009 lines 74-91); route.ts lines 55-86: the handler validates
\* it, logs the result, continues either way and asks for the jobs
RouteProfileLoaded(found) ==
    /\ stage = "profile"
    /\ profile' = found.profile
    /\ yearsType' = found.yearsType
    /\ \E v \in { validateAnonymizedProfileStructure(found.profile, found.yearsType) } :
          /\ validation' = v
          /\ audit' = audit \o
               << logDataValidation("getAnonymizedProfileByEmail", v.isValid),
                  [eventType |-> "ANONYMIZED_PROFILE_RETRIEVED",
                   operation |-> "getAnonymizedProfileByEmail", success |-> TRUE],
                  [eventType |-> "PII_STRIPPED",
                   operation |-> "getAnonymizedProfileByEmail", success |-> TRUE],
                  logDataValidation("validateAnonymizedProfile", v.isValid),
                  [eventType |-> "ANONYMIZED_PROFILE_RETRIEVED",
                   operation |-> "getAnonymizedProfileByEmail", success |-> TRUE] >>
    /\ stage' = "jobs"
    /\ UNCHANGED <<jobs, pc, sem, timer, semMatches, result, outcome, winner,
                   kwCalls, simCalls, response>>
    /\ UNCHANGED <<now, dedupVars, insightVars, genVars, utilVars>>

\* lines 89-99 and 112-118: searchJobs answered; an empty list is answered at
\* once, otherwise the call is logged and findMatches is called
RouteJobsLoaded(found) ==
    /\ stage = "jobs"
    /\ IF Len(found) = 0
       THEN /\ response' = [status |-> 200, matches |-> <<>>, isApproximate |-> FALSE,
                            message |-> "No jobs found matching your criteria. Try adjusting your search preferences."]
            /\ stage' = "responded"
            /\ UNCHANGED <<jobs, pc, sem, timer, semMatches, result, outcome,
                           winner, kwCalls, simCalls, audit>>
       ELSE /\ jobs' = found
            /\ audit' = Append(audit, [eventType |-> "MATCHING_SERVICE_CALL",
                                       operation |-> "findMatches", success |-> TRUE])
            /\ StartRace
            /\ stage' = "matching"
            /\ UNCHANGED response
    /\ UNCHANGED <<profile, yearsType, validation>>
    /\ UNCHANGED <<now, dedupVars, insightVars, genVars, utilVars>>

\* lines 100-110: searchJobs threw
RouteJobsFailed ==
    /\ stage = "jobs"
    /\ response' = [status |-> 200, matches |-> <<>>, isApproximate |-> FALSE,
                    message |-> "Unable to fetch jobs"]
    /\ stage' = "responded"
    /\ UNCHANGED <<yearsType, validation, audit>>
    /\ UNCHANGED <<orchVars, now, dedupVars, insightVars, genVars, utilVars>>

\* lines 118-158 and 159-180: findMatches settled; the insight cards that
\* generateCompanyInsights attaches to the matches are left out of the response
RouteRespond ==
    /\ stage = "matching"
    /\ pc = "done"
    /\ IF outcome = "resolved"
       THEN \E hasApproximateMatches \in
                 { \E i \in 1..Len(result) : result[i].isApproximate } :
              /\ response' = [status |-> 200, matches |-> result,
                              isApproximate |-> hasApproximateMatches,
                              message |-> IF hasApproximateMatches
                                          THEN ApproximateMessage ELSE "undefined"]
              /\ UNCHANGED audit
       ELSE /\ response' = [status |-> 500, error |-> "Failed to retrieve job matches"]
            /\ audit' = Append(audit, [eventType |-> "MATCHING_SERVICE_CALL",
                                       operation |-> "findMatches", success |-> FALSE])
    /\ stage' = "responded"
    /\ UNCHANGED <<yearsType, validation>>
    /\ UNCHANGED <<orchVars, now, dedupVars, insightVars, genVars, utilVars>>

NextRoute ==
    \/ \E email \in {"missing", "malformed", "ok"} : RoutePost(email)
    \/ RouteProfileMissing
    \/ \E found \in RouteProfiles : RouteProfileLoaded(found)
    \/ \E found \in RouteJobLists : RouteJobsLoaded(found)
    \/ RouteJobsFailed
    \/ SemanticResolves
    \/ AttemptFailsRetryable
    \/ RetryWakes
    \/ SemanticRejects
    \/ TimeoutFires
    \/ RouteRespond

SpecRoute == InitRoute /\ [][NextRoute]_vars

(***************************************************************************)
(* RequestDeduplicationCache.  A key object is the sequence of its         *)
(* <<name, value>> properties in insertion order; a value is a string      *)
(* [kind |-> "str"] or a nested object [kind |-> "obj"].  Times are        *)
(* abstract ticks; the result of an execution is its id.                   *)
(***************************************************************************)
Str(v) == [kind |-> "str", v |-> v]
Obj(fields) == [kind |-> "obj", fields |-> fields]

\* property names of the model in the order Array.prototype.sort puts them
NameOrder == <<"a", "companyInfo", "jobDescription", "opts", "type">>

\* Object.keys(params).sort()
SortedKeys(params) ==
    Filter(NameOrder,
           [n \in 1..Len(NameOrder) |->
               \E i \in 1..Len(params) : params[i][1] = NameOrder[n]])

ValueOf(fields, name) ==
    fields[CHOOSE i \in 1..Len(fields) : fields[i][1] = name][2]

\* the properties of an object that JSON.stringify emits under an array
\* replacer: those named in the list, in the order of the list
Listed(fields, list) ==
    Filter(list, [n \in 1..Len(list) |->
                     \E i \in 1..Len(fields) : fields[i][1] = list[n]])

\* JSON.stringify(params, list): the replacer list applies at every depth
Stringify(params, list) ==
    [n \in 1..Len(Listed(params, list)) |->
        LET name == Listed(params, list)[n]
            v == ValueOf(params, name)
        IN IF v.kind = "str"
           THEN <<name, v.v>>
           ELSE <<name, [m \in 1..Len(Listed(v.fields, list)) |->
                           <<Listed(v.fields, list)[m],
                             ValueOf(v.fields, Listed(v.fields, list)[m]).v>>]>>]

\* sha256 is taken to be injective: the digest is the normalized text itself
generateRequestHash(params) == Stringify(params, SortedKeys(params))

KeyPool ==
    { << <<"type", Str("s")>>, <<"jobDescription", Str("d1")>> >>,
      << <<"jobDescription", Str("d1")>>, <<"type", Str("s")>> >>,
      << <<"type", Str("s")>>, <<"jobDescription", Str("d2")>> >>,
      << <<"type", Str("s")>>, <<"opts", Obj(<< <<"a", Str("1")>> >>)>> >>,
      << <<"type", Str("s")>>, <<"opts", Obj(<< <<"a", Str("2")>> >>)>> >> }

TtlPool == {1, 2}

\* two key objects with the same fields and values, in any order
SameFields(k1, k2) ==
    {k1[i] : i \in 1..Len(k1)} = {k2[i] : i \in 1..Len(k2)}

Has(m, h) == \E i \in 1..Len(m) : m[i].hash = h
At(m, h) == m[CHOOSE i \in 1..Len(m) : m[i].hash = h]
\* Map.delete
Delete(m, h) == Filter(m, [i \in 1..Len(m) |-> m[i].hash # h])
\* Map.set: an existing key keeps its place, a new key goes last
Put(m, e) ==
    IF Has(m, e.hash)
    THEN [i \in 1..Len(m) |-> IF m[i].hash = e.hash THEN e ELSE m[i]]
    ELSE Append(m, e)

\* lines 397-408: the branch getOrExecute takes for a hash
CallPath(h) ==
    IF Has(dcache, h) /\ At(dcache, h).expiresAt > now THEN "cached"
    ELSE IF Has(pendingRequests, h) THEN "joined"
    ELSE "execute"

InitDedup ==
    /\ profile = Only(ProfilePool)
    /\ jobs = <<>>
    /\ OrchIdle
    /\ now = 0
    /\ DedupEmpty
    /\ InsightEmpty
    /\ GenEmpty
    /\ RouteIdle
    /\ UtilIdle

\* lines 389-428: what getOrExecute does to the cache, the pending requests
\* and the histories
getOrExecute(params, ttl) ==
    /\ Len(callers) < MaxCallers
    /\ \E hash \in { generateRequestHash(params) } :
          \E path \in { CallPath(hash) } :
             /\ path = "execute" => Len(execs) < MaxExecs
             /\ callers' = Append(callers,
                   [params |-> params, at |-> now, path |-> path,
                    cached |-> IF Has(dcache, hash) THEN At(dcache, hash).result ELSE 0,
                    exec |-> IF path = "joined" THEN At(pendingRequests, hash).promise
                             ELSE IF path = "execute" THEN Len(execs) + 1
                             ELSE 0,
                    got |-> IF path = "cached" THEN At(dcache, hash).result ELSE 0,
                    settled |-> path = "cached",
                    running |-> {e \in 1..Len(execs) :
                                    execs[e].status = "running" /\ execs[e].hash = hash}])
             /\ IF path = "execute"
                THEN /\ execs' = Append(execs,
                           [hash |-> hash, now |-> now, ttl |-> ttl,
                            status |-> "running", completedAt |-> 0])
                     /\ pendingRequests' = Put(pendingRequests,
                           [hash |-> hash, promise |-> Len(execs) + 1])
                ELSE UNCHANGED <<execs, pendingRequests>>
    /\ UNCHANGED dcache

\* a getOrExecute call by a client of the cache
GetOrExecute(params, ttl) ==
    /\ getOrExecute(params, ttl)
    /\ UNCHANGED <<now, orchVars, insightVars, genVars, routeVars, utilVars>>

\* the promise of execution e settles: every caller holding it is answered
Deliver(e, value) ==
    [c \in 1..Len(callers) |->
        IF callers[c].exec = e
        THEN [callers[c] EXCEPT !.got = value, !.settled = TRUE]
        ELSE callers[c]]

\* lines 412-420: the executor's promise resolves
ExecResolved(e) ==
    /\ execs[e].status = "running"
    /\ execs' = [execs EXCEPT ![e].status = "ok", ![e].completedAt = now]
    /\ dcache' = Put(dcache, [hash |-> execs[e].hash, result |-> e,
                              timestamp |-> execs[e].now,
                              expiresAt |-> execs[e].now + execs[e].ttl])
    /\ pendingRequests' = Delete(pendingRequests, execs[e].hash)
    /\ callers' = Deliver(e, e)

ExecSucceeds(e) ==
    /\ ExecResolved(e)
    /\ UNCHANGED <<now, orchVars, insightVars, genVars, routeVars, utilVars>>

\* lines 421-424: the executor's promise rejects
ExecRejected(e) ==
    /\ execs[e].status = "running"
    /\ execs' = [execs EXCEPT ![e].status = "failed", ![e].completedAt = now]
    /\ pendingRequests' = Delete(pendingRequests, execs[e].hash)
    /\ callers' = Deliver(e, "error")
    /\ UNCHANGED dcache

ExecFails(e) ==
    /\ ExecRejected(e)
    /\ UNCHANGED <<now, orchVars, insightVars, genVars, routeVars, utilVars>>

\* lines 434-445: the pattern is any set of hashes a regular expression picks
InvalidatePattern(matching) ==
    /\ dcache' = Filter(dcache, [i \in 1..Len(dcache) |-> dcache[i].hash \notin matching])
    /\ dcache' # dcache
    /\ UNCHANGED <<pendingRequests, execs, callers, now, orchVars, insightVars, genVars, routeVars, utilVars>>

\* lines 450-462
DedupPruneExpired ==
    /\ dcache' = Filter(dcache, [i \in 1..Len(dcache) |-> ~(dcache[i].expiresAt <= now)])
    /\ UNCHANGED <<pendingRequests, execs, callers, now, orchVars, insightVars, genVars, routeVars, utilVars>>

\* lines 467-470
DedupClear ==
    /\ dcache' = <<>>
    /\ pendingRequests' = <<>>
    /\ UNCHANGED <<execs, callers, now, orchVars, insightVars, genVars, routeVars, utilVars>>

\* Date.now() advances
Tick ==
    /\ now < MaxTime
    /\ now' = now + 1
    /\ lastGet' = NoGet
    /\ UNCHANGED <<orchVars, dedupVars, icache, sets, used, genVars, routeVars, utilVars>>

NextDedup ==
    \/ \E params \in KeyPool, ttl \in TtlPool : GetOrExecute(params, ttl)
    \/ \E e \in 1..Len(execs) : ExecSucceeds(e)
    \/ \E e \in 1..Len(execs) : ExecFails(e)
    \/ \E matching \in SUBSET {generateRequestHash(k) : k \in KeyPool} :
          InvalidatePattern(matching)
    \/ DedupPruneExpired
    \/ DedupClear
    \/ Tick

SpecDedup == InitDedup /\ [][NextDedup]_vars

(***************************************************************************)
(* CompanyInsightsCache.  The Map is the sequence of its entries in        *)
(* insertion order.  An insight object is identified by the number of the  *)
(* set() call that stored it; 0 is null.  The capacity and the TTL are     *)
(* scaled down from the code's 500 entries and 7 days.                     *)
(***************************************************************************)
MAX_CACHE_SIZE == 2
INSIGHT_CACHE_TTL_MS == 2

JobIds == {1, 2}
Descriptions == {"d1", "d2", "d3"}

\* md5(description).substring(0, 8): 32 bits, so descriptions can collide
DescHash(description) ==
    CASE description = "d1" -> "h1"
      [] description = "d2" -> "h2"
      [] description = "d3" -> "h1"

\* variant: the key leaves the description out
generateCacheKey_IdOnly(jobId, description) == <<"insight", jobId, "">>

generateCacheKey(jobId, description) == <<"insight", jobId, DescHash(description)>>

\* variant: nothing is evicted
evictOldest_Nothing(cache) == cache

\* lines 77-91: the first entry, in Map order, with the least timestamp
evictOldest(cache) ==
    IF cache = <<>> THEN cache
    ELSE Delete(cache,
                cache[CHOOSE i \in 1..Len(cache) :
                        /\ \A j \in 1..Len(cache) : cache[i].timestamp <= cache[j].timestamp
                        /\ \A j \in 1..(i - 1) : cache[j].timestamp > cache[i].timestamp].hash)

InitInsight ==
    /\ profile = Only(ProfilePool)
    /\ jobs = <<>>
    /\ OrchIdle
    /\ now = 0
    /\ DedupEmpty
    /\ InsightEmpty
    /\ GenEmpty
    /\ RouteIdle
    /\ UtilIdle

Gone == [jobId |-> 0, description |-> "", at |-> 0, live |-> FALSE]

\* history: the set() calls whose entry is no longer in the cache are marked
Mark(cacheAfter) ==
    [n \in 1..Len(sets) |->
        IF \E i \in 1..Len(cacheAfter) : cacheAfter[i].insight = n
        THEN sets[n] ELSE Gone]

\* lines 61-69: the Map after set() stores insight under key
SetEntry(cache, key, insight) ==
    Put(IF Len(cache) >= MAX_CACHE_SIZE /\ ~Has(cache, key)
        THEN evictOldest(cache) ELSE cache,
        [hash |-> key, insight |-> insight, timestamp |-> now,
         expiresAt |-> now + INSIGHT_CACHE_TTL_MS])

\* history: the keys still in the cache, in the order of their last use
Kept(cacheAfter) == Filter(used, [i \in 1..Len(used) |-> Has(cacheAfter, used[i])])

\* history: key h was just stored or read
Touch(cacheAfter, h) ==
    Append(Filter(used, [i \in 1..Len(used) |-> Has(cacheAfter, used[i]) /\ used[i] # h]), h)

\* lines 56-72; the insight stored is a fresh object
InsightSet(jobId, description) ==
    /\ Len(sets) < MaxSets
    /\ \E key \in { generateCacheKey(jobId, description) } :
             /\ icache' = SetEntry(icache, key, Len(sets) + 1)
             /\ sets' = Append(Mark(icache'),
                               [jobId |-> jobId, description |-> description,
                                at |-> now, live |-> TRUE])
             /\ used' = Touch(icache', key)
    /\ lastGet' = [op |-> "set", jobId |-> jobId, description |-> description,
                   before |-> icache]
    /\ UNCHANGED <<now, orchVars, dedupVars, genVars, routeVars, utilVars>>

\* lines 34-51
InsightGet(jobId, description) ==
    /\ \E key \in { generateCacheKey(jobId, description) } :
          IF ~Has(icache, key)
          THEN /\ lastGet' = [op |-> "get", jobId |-> jobId,
                              description |-> description, before |-> icache,
                              ret |-> 0]
               /\ UNCHANGED <<icache, sets, used>>
          ELSE IF At(icache, key).expiresAt <= now
          THEN /\ icache' = Delete(icache, key)
               /\ sets' = Mark(icache')
               /\ used' = Kept(icache')
               /\ lastGet' = [op |-> "get", jobId |-> jobId,
                              description |-> description, before |-> icache,
                              ret |-> 0]
          ELSE /\ lastGet' = [op |-> "get", jobId |-> jobId,
                              description |-> description, before |-> icache,
                              ret |-> At(icache, key).insight]
               /\ used' = Touch(icache, key)
               /\ UNCHANGED <<icache, sets>>
    /\ UNCHANGED <<now, orchVars, dedupVars, genVars, routeVars, utilVars>>

\* variant: an entry is kept until after its expiry time
InsightPruneExpired_Late ==
    /\ icache' = Filter(icache, [i \in 1..Len(icache) |-> ~(icache[i].expiresAt < now)])
    /\ sets' = Mark(icache')
    /\ used' = Kept(icache')
    /\ lastGet' = [op |-> "prune", before |-> icache]
    /\ UNCHANGED <<now, orchVars, dedupVars, genVars, routeVars, utilVars>>

\* lines 96-110
InsightPruneExpired ==
    /\ icache' = Filter(icache, [i \in 1..Len(icache) |-> ~(icache[i].expiresAt <= now)])
    /\ sets' = Mark(icache')
    /\ used' = Kept(icache')
    /\ lastGet' = [op |-> "prune", before |-> icache]
    /\ UNCHANGED <<now, orchVars, dedupVars, genVars, routeVars, utilVars>>

\* lines 115-117
InsightClear ==
    /\ icache' = <<>>
    /\ sets' = Mark(icache')
    /\ used' = <<>>
    /\ lastGet' = NoGet
    /\ UNCHANGED <<now, orchVars, dedupVars, genVars, routeVars, utilVars>>

NextInsight ==
    \/ \E jobId \in JobIds, description \in Descriptions : InsightSet(jobId, description)
    \/ \E jobId \in JobIds, description \in Descriptions : InsightGet(jobId, description)
    \/ InsightPruneExpired
    \/ InsightClear
    \/ Tick

SpecInsight == InitInsight /\ [][NextInsight]_vars

(***************************************************************************)
(* MatchingOrchestrator.generateCompanyInsights.  Each call is a batch;    *)
(* each job of a batch is handled by one async callback (a proc).  The     *)
(* synchronous part of a batch and the promise continuations run to        *)
(* completion before any timer, oracle reply or new request is handled.    *)
(* An insight is either the object an execution of the oracle returned     *)
(* ([kind |-> "summary", obj |-> execution id], its fields are in heap) or *)
(* a fallback object, which nothing mutates after its creation.            *)
(***************************************************************************)
InsightJobs ==
    { [id |-> 1, description |-> "d1", company |-> "Acme", industry |-> "Tech",
       companySize |-> "small"],
      [id |-> 2, description |-> "d1", company |-> "Acme", industry |-> "Tech",
       companySize |-> "large"],
      [id |-> 3, description |-> "d2", company |-> "Bolt", industry |-> "Health",
       companySize |-> "medium"] }

JobWithId(id) == Only({ j \in InsightJobs : j.id = id })

\* the job lists of a request: one job, or two jobs with different ids
BatchPool ==
    { <<JobWithId(1)>>,
      <<JobWithId(1), JobWithId(2)>>, <<JobWithId(1), JobWithId(3)>> }

\* text.split(/[.!?]+/) without the blank pieces; a piece of text is the
\* sequence of its parts
Sentences(description) ==
    CASE description = "d1" ->
            << <<"We build tools">>, <<"You write code">>, <<"Join us">> >>
      [] description = "d2" -> << <<"Care for patients">> >>
      [] OTHER -> <<>>

\* sentences.slice(0, 2).join(". ").trim() + "."
JoinSentences(ss) ==
    IF Len(ss) = 0 THEN <<".">>
    ELSE IF Len(ss) = 1 THEN ss[1] \o <<".">>
    ELSE ss[1] \o <<". ">> \o ss[2] \o <<".">>

\* HuggingFaceService.ts lines 235-242: the sentences of
\* `${companyInfo}\n\n${jobDescription}`
CombinedSentences(companyInfo, jobDescription) ==
    IF Sentences(jobDescription) = <<>> THEN <<companyInfo>>
    ELSE << companyInfo \o <<"\n\n">> \o Head(Sentences(jobDescription)) >>
            \o Tail(Sentences(jobDescription))

\* variant: the fallback carries the first sentence only
createFallbackInsight_OneSentence(job) ==
    [kind |-> "fallback",
     companySize |-> job.companySize,
     industries |-> <<job.industry>>,
     description |-> JoinSentences(Slice(Sentences(job.description), 0, 1))]

\* lines 111-148; the key responsibilities, a second excerpt of the same
\* description, are left out
createFallbackInsight(job) ==
    [kind |-> "fallback",
     companySize |-> job.companySize,
     industries |-> <<job.industry>>,
     description |-> JoinSentences(Slice(Sentences(job.description), 0, 2))]

\* HuggingFaceService.ts lines 223-271: the new object performSummarization
\* returns; its companySize and industries are placeholders
performSummarization(jobDescription, companyInfo) ==
    [companySize |-> "medium", industries |-> <<>>,
     description |->
        JoinSentences(Slice(CombinedSentences(companyInfo, jobDescription), 0, 2))]

\* the CompanyInsight a reference denotes now
View(insight) ==
    IF insight.kind = "summary" THEN heap[insight.obj] ELSE
    [companySize |-> insight.companySize, industries |-> insight.industries,
     description |-> insight.description]

\* HuggingFaceService.ts lines 207-212: the key object of summarizeCompany
summarizeParams(job) ==
    << <<"type", Str("summarizeCompany")>>,
       <<"jobDescription", Str(job.description)>>,
       <<"companyInfo", Str(<<job.company, " - ", job.industry>>)>> >>

InsightKey(job) == generateCacheKey(job.id, job.description)

\* history: the procs whose stored entry this action removed from the cache
\* are marked
Removed(cacheAfter) ==
    [q \in 1..Len(procs) |->
        [procs[q] EXCEPT !.live =
            procs[q].live /\ ~( /\ Has(icache, InsightKey(procs[q].job))
                                /\ ~Has(cacheAfter, InsightKey(procs[q].job)) )]]

\* history: the earlier procs that stored an insight for the same job id and
\* description less than the TTL ago, which was not evicted since
StoredFor(job) ==
    { q \in 1..Len(procs) :
        /\ procs[q].pc = "done"
        /\ procs[q].how \in {"summary", "fallback"}
        /\ procs[q].job.id = job.id
        /\ procs[q].job.description = job.description
        /\ procs[q].live
        /\ now - procs[q].storedAt < INSIGHT_CACHE_TTL_MS }

\* the promise getOrExecute returned to caller c is rejected
Rejected(c) == callers[c].exec # 0 /\ execs[callers[c].exec].status = "failed"

Starting == \E b \in 1..Len(batches) : batches[b].next <= Len(batches[b].jobs)
Calling == \E p \in 1..Len(procs) : procs[p].pc = "calling"
\* variant: the continuation of the try block also runs for a callback whose
\* timer already settled the race
Answered_AfterTimeout(p) ==
    /\ procs[p].pc = "racing" \/ (procs[p].pc = "done" /\ procs[p].timer = "fired")
    /\ callers[procs[p].caller].settled

Answered(p) == procs[p].pc = "racing" /\ callers[procs[p].caller].settled
AllDone(b) ==
    /\ batches[b].status = "running"
    /\ batches[b].next > Len(batches[b].jobs)
    /\ \A p \in 1..Len(procs) : procs[p].batch = b => procs[p].pc = "done"
\* nothing is left to run before the event loop takes the next event
Quiet ==
    /\ ~Starting
    /\ ~Calling
    /\ ~\E p \in 1..Len(procs) : Answered(p)
    /\ ~\E b \in 1..Len(batches) : AllDone(b)

\* no request is in progress: a request lasts seconds, a tick is days
Idle == \A b \in 1..Len(batches) : batches[b].status # "running"

InitGen ==
    /\ profile = Only(ProfilePool)
    /\ jobs = <<>>
    /\ OrchIdle
    /\ now = 0
    /\ DedupEmpty
    /\ InsightEmpty
    /\ GenEmpty
    /\ RouteIdle
    /\ UtilIdle

\* line 67: a request calls generateCompanyInsights(js)
BatchBegin(js) ==
    /\ Quiet
    /\ Len(procs) + Len(js) <= MaxCallers
    /\ Len(execs) + Len(js) <= MaxExecs
    /\ batches' = Append(batches, [jobs |-> js, next |-> 1, status |-> "running"])
    /\ UNCHANGED <<procs, heap, now, orchVars, routeVars, utilVars, dedupVars, insightVars>>

\* lines 72-84: the callback of the next job runs up to its await: the cache
\* lookup and, on a miss, the call of summarizeCompany and the timer
ProcStart(b) ==
    /\ batches[b].next <= Len(batches[b].jobs)
    /\ batches' = [batches EXCEPT ![b].next = @ + 1]
    /\ \E job \in { batches[b].jobs[batches[b].next] } :
       \E key \in { InsightKey(job) } :
       \E fresh \in { [batch |-> b, job |-> job, covered |-> StoredFor(job),
                       storedAt |-> 0, live |-> FALSE] } :
          IF Has(icache, key) /\ ~(At(icache, key).expiresAt <= now)
          THEN /\ procs' = Append(procs,
                      fresh @@ [pc |-> "done", how |-> "hit", caller |-> 0,
                                timer |-> "none",
                                entry |-> At(icache, key).insight])
               /\ UNCHANGED icache
          ELSE /\ icache' = Delete(icache, key)
               /\ procs' = Append(Removed(icache'),
                      fresh @@ [pc |-> "calling", how |-> "none", caller |-> 0,
                                timer |-> "armed",
                                entry |-> [kind |-> "none"]])
    /\ UNCHANGED <<heap, now, orchVars, routeVars, utilVars, dedupVars, lastGet, sets, used>>

\* HuggingFaceService.ts lines 204-220: after its await, summarizeCompany
\* calls getOrExecute with the 7 days TTL
ProcCall(p) ==
    /\ ~Starting
    /\ procs[p].pc = "calling"
    /\ \A q \in 1..(p - 1) : procs[q].pc # "calling"
    /\ getOrExecute(summarizeParams(procs[p].job), INSIGHT_CACHE_TTL_MS)
    /\ procs' = [procs EXCEPT ![p].pc = "racing", ![p].caller = Len(callers) + 1]
    /\ UNCHANGED <<batches, heap, now, orchVars, routeVars, utilVars, insightVars>>

\* variant: the fallback is returned without being stored
OnSummaryRejected_NotStored(p, t) ==
    /\ procs' = [procs EXCEPT ![p].pc = "done", ![p].how = "fallback",
                              ![p].timer = t,
                              ![p].entry = createFallbackInsight(procs[p].job),
                              ![p].storedAt = now, ![p].live = TRUE]
    /\ UNCHANGED icache

\* lines 93-100: the catch block; t is what became of the timer of the proc
OnSummaryRejected(p, t) ==
    /\ icache' = SetEntry(icache, InsightKey(procs[p].job),
                          createFallbackInsight(procs[p].job))
    /\ procs' = [Removed(icache') EXCEPT
                    ![p].pc = "done", ![p].how = "fallback",
                    ![p].timer = t,
                    ![p].entry = createFallbackInsight(procs[p].job),
                    ![p].storedAt = now, ![p].live = TRUE]

\* lines 86-92: the rest of the try block, insight being the object the
\* race resolved with
OnSummaryResolved(p, e) ==
    /\ heap' = [heap EXCEPT ![e] = [@ EXCEPT
                    !.companySize = procs[p].job.companySize,
                    !.industries = <<procs[p].job.industry>>]]
    /\ icache' = SetEntry(icache, InsightKey(procs[p].job),
                          [kind |-> "summary", obj |-> e])
    /\ procs' = [Removed(icache') EXCEPT
                    ![p].pc = "done", ![p].how = "summary",
                    ![p].timer = "stale",
                    ![p].entry = [kind |-> "summary", obj |-> e],
                    ![p].storedAt = now, ![p].live = TRUE]

\* the oracle replies: the execution resolves with a new object
SummaryArrives(e) ==
    /\ Quiet
    /\ ExecResolved(e)
    /\ heap' = (e :> performSummarization(ValueOf(execs[e].hash, "jobDescription"),
                                          ValueOf(execs[e].hash, "companyInfo"))) @@ heap
    /\ UNCHANGED <<batches, procs, now, orchVars, routeVars, utilVars, insightVars>>

\* the oracle call fails after its retries
SummaryFails(e) ==
    /\ Quiet
    /\ ExecRejected(e)
    /\ UNCHANGED <<genVars, routeVars, utilVars, now, orchVars, insightVars>>

\* lines 81-100: the race of a proc is settled by summarizeCompany
ProcResume(p) ==
    /\ ~Starting /\ ~Calling
    /\ Answered(p)
    /\ \A q \in 1..(p - 1) : ~Answered(q)
    /\ IF Rejected(procs[p].caller)
       THEN OnSummaryRejected(p, "stale") /\ UNCHANGED heap
       ELSE OnSummaryResolved(p, callers[procs[p].caller].got)
    /\ UNCHANGED <<batches, now, orchVars, routeVars, utilVars, dedupVars, lastGet, sets, used>>

\* lines 153-157: the 5 s timer of a proc fires before summarizeCompany
\* settles; timers of equal delay fire in the order they were set
InsightTimeoutFires(p) ==
    /\ Quiet
    /\ procs[p].pc = "racing"
    /\ procs[p].timer = "armed"
    /\ \A q \in 1..(p - 1) : procs[q].timer # "armed"
    /\ OnSummaryRejected(p, "fired")
    /\ UNCHANGED <<batches, heap, now, orchVars, routeVars, utilVars, dedupVars, lastGet, sets, used>>

\* line 103: Promise.all settles when every callback of the batch has
BatchSettles(b) ==
    /\ AllDone(b)
    /\ batches' = [batches EXCEPT ![b].status =
                      IF \E p \in 1..Len(procs) :
                            procs[p].batch = b /\ procs[p].how = "thrown"
                      THEN "rejected" ELSE "resolved"]
    /\ UNCHANGED <<procs, heap, now, orchVars, routeVars, utilVars, dedupVars, insightVars>>

NextGen ==
    \/ \E js \in BatchPool : BatchBegin(js)
    \/ \E b \in 1..Len(batches) : ProcStart(b)
    \/ \E p \in 1..Len(procs) : ProcCall(p)
    \/ \E e \in 1..Len(execs) : SummaryArrives(e)
    \/ \E e \in 1..Len(execs) : SummaryFails(e)
    \/ \E p \in 1..Len(procs) : ProcResume(p)
    \/ \E p \in 1..Len(procs) : InsightTimeoutFires(p)
    \/ \E b \in 1..Len(batches) : BatchSettles(b)
    \/ Idle /\ Tick

SpecGen == InitGen /\ [][NextGen]_vars

\* the event loop runs what is ready, and a timer that was set fires
FairSpecGen ==
    /\ SpecGen
    /\ WF_vars(\E b \in 1..Len(batches) : ProcStart(b))
    /\ WF_vars(\E p \in 1..Len(procs) : ProcCall(p))
    /\ WF_vars(\E p \in 1..Len(procs) : ProcResume(p))
    /\ WF_vars(\E p \in 1..Len(procs) : InsightTimeoutFires(p))
    /\ WF_vars(\E b \in 1..Len(batches) : BatchSettles(b))

(***************************************************************************)
(* The two strategies applied to one profile and one job.  The profile has *)
(* up to MaxSkills skills and up to MaxIndustries industries; the oracle   *)
(* may reply any number.                                                   *)
(***************************************************************************)
\* the i-th skill name: i letters
SkillName(i, letter) == [c \in 1..i |-> letter]

ScoreProfiles ==
    { [skills |-> [i \in 1..k |-> SkillName(i, "K")],
       yearsExperience |-> 4,
       seniority |-> "senior",
       desiredRoles |-> roles,
       preferredCompanySize |-> "small",
       industries |-> [i \in 1..n |-> <<"T","e","c","h">>],
       remotePreference |-> remote] :
         k \in 0..MaxSkills, n \in 0..MaxIndustries,
         roles \in { <<>>, << <<"D","e","v">> >> },
         remote \in {"remote", "flexible", "onsite"} }

ScoreJobs ==
    { [id |-> 1, title |-> <<"S","r"," ","D","e","v">>, role |-> <<"d","e","v">>,
       description |-> <<"x">>,
       requiredSkills |-> [i \in 1..MaxSkills |-> SkillName(i, "k")],
       companySize |-> "small", industry |-> <<"t","e","c","h">>,
       remotePreference |-> "remote"],
      [id |-> 1, title |-> <<"I","n","t","e","r","n">>, role |-> <<"O","p","s">>,
       description |-> <<>>, requiredSkills |-> <<>>,
       companySize |-> "medium", industry |-> <<"B","i","o">>,
       remotePreference |-> "hybrid"] }

\* similarities in thousandths: the reply is not checked to be within 0..1
ScoreSims == {-200, 0, 4, 5, 455, 1000, 1004, 1200}

InitScore ==
    /\ profile \in ScoreProfiles
    /\ jobs \in { <<job>> : job \in ScoreJobs }
    /\ OrchIdle
    /\ now = 0
    /\ DedupEmpty
    /\ InsightEmpty
    /\ GenEmpty
    /\ RouteIdle
    /\ UtilIdle

\* ASRFailureTracker.ts lines 297-320
ScoreKeyword ==
    /\ pc = "idle"
    /\ pc' = "done"
    /\ result' = KeywordFindMatches(profile, jobs)
    /\ winner' = "keyword"
    /\ outcome' = "resolved"
    /\ UNCHANGED <<profile, jobs, sem, timer, semMatches, kwCalls, simCalls,
                   now, dedupVars, insightVars, genVars, routeVars, utilVars>>

\* SemanticMatchingStrategy.ts lines 23-95, the oracle replying <<similarity>>
ScoreSemantic(similarity) ==
    /\ pc = "idle"
    /\ pc' = "done"
    /\ result' = SemanticFindMatches(profile, jobs, <<similarity>>)
    /\ winner' = "semantic"
    /\ outcome' = "resolved"
    /\ simCalls' = simCalls + 1
    /\ UNCHANGED <<profile, jobs, sem, timer, semMatches, kwCalls,
                   now, dedupVars, insightVars, genVars, routeVars, utilVars>>

NextScore ==
    \/ ScoreKeyword
    \/ \E similarity \in ScoreSims : ScoreSemantic(similarity)

SpecScore == InitScore /\ [][NextScore]_vars

(***************************************************************************)
(* AIService.withRetry around withTimeout: one wrapped oracle call, as in  *)
(* HuggingFaceService.calculateSimilarities.  Every fn() call starts one   *)
(* external request (fetch).  withTimeout races the request against its    *)
(* own timer; the AbortController's signal is not handed to fetch, so a    *)
(* request whose attempt timed out stays outstanding until it settles.     *)
(***************************************************************************)
RECURSIVE Pow(_, _)
Pow(b, e) == IF e = 0 THEN 1 ELSE b * Pow(b, e - 1)

\* The configurations the services are constructed with.
ServiceConfigs ==
    { [maxRetries |-> 2, retryDelayMs |-> 1000],    \* HuggingFaceService
      [maxRetries |-> 1, retryDelayMs |-> 1000] }   \* OpenAIService

\* The AIError codes an attempt can raise.
ErrorCodes == {"TIMEOUT", "SERVICE_UNAVAILABLE", "INVALID_RESPONSE", "UNKNOWN"}

Retryable_Always(code) == TRUE

\* AIError.retryable of the error with this code.
Retryable(code) == code \in {"TIMEOUT", "SERVICE_UNAVAILABLE"}

NewRequest == [status |-> "outstanding", timedOut |-> FALSE]

Awaited(i) == rpc = "awaiting" /\ i = Len(requests)

InitRetry ==
    /\ OrchIdle
    /\ profile = Only(ProfilePool)
    /\ jobs = <<>>
    /\ now = 0
    /\ DedupEmpty
    /\ InsightEmpty
    /\ GenEmpty
    /\ RouteIdle
    /\ UtilIdle

RetryFrame ==
    UNCHANGED <<orchVars, now, dedupVars, insightVars, genVars, routeVars,
                piiVars, asrVars>>

\* withRetry(fn) is entered: attempt = 0 and the first fn() call.
WithRetry(cfg) ==
    /\ rpc = "idle"
    /\ config' = cfg
    /\ attempt' = 0
    /\ requests' = <<NewRequest>>
    /\ rpc' = "awaiting"
    /\ UNCHANGED <<slept, lastError>>
    /\ RetryFrame

\* The catch block of withRetry for an error with this code.
Caught(code) ==
    /\ lastError' = code
    /\ IF ~Retryable(code)
         THEN rpc' = "thrown" /\ UNCHANGED slept
         ELSE IF attempt = config.maxRetries
                THEN rpc' = "thrown" /\ UNCHANGED slept
                ELSE /\ rpc' = "sleeping"
                     /\ slept' = Append(slept, config.retryDelayMs * Pow(2, attempt))
    /\ UNCHANGED <<config, attempt>>

\* A request's response is good.  If its attempt is still awaited, fn()
\* resolves and withRetry returns; otherwise nobody listens.
RequestResolves(i) ==
    /\ requests[i].status = "outstanding"
    /\ requests' = [requests EXCEPT ![i].status = "resolved"]
    /\ IF Awaited(i)
         THEN rpc' = "returned" /\ UNCHANGED <<config, attempt, slept, lastError>>
         ELSE UNCHANGED <<config, rpc, attempt, slept, lastError>>
    /\ RetryFrame

\* A request fails (503, another status, a malformed body, a network error).
RequestRejects(i, code) ==
    /\ requests[i].status = "outstanding"
    /\ requests' = [requests EXCEPT ![i].status = "rejected"]
    /\ IF Awaited(i)
         THEN Caught(code)
         ELSE UNCHANGED <<config, rpc, attempt, slept, lastError>>
    /\ RetryFrame

AttemptTimesOut_Unmarked ==
    /\ rpc = "awaiting"
    /\ requests[Len(requests)].status = "outstanding"
    /\ UNCHANGED requests
    /\ Caught("TIMEOUT")
    /\ RetryFrame

\* The timer of withTimeout fires first: the race rejects with TIMEOUT.  The
\* request itself is left running.
AttemptTimesOut ==
    /\ rpc = "awaiting"
    /\ requests[Len(requests)].status = "outstanding"
    /\ requests' = [requests EXCEPT ![Len(requests)].timedOut = TRUE]
    /\ Caught("TIMEOUT")
    /\ RetryFrame

\* sleep(delay) is over: attempt++ and the next fn() call.
SleepEnds ==
    /\ rpc = "sleeping"
    /\ attempt' = attempt + 1
    /\ requests' = Append(requests, NewRequest)
    /\ rpc' = "awaiting"
    /\ UNCHANGED <<config, slept, lastError>>
    /\ RetryFrame

NextRetry ==
    \/ \E cfg \in ServiceConfigs : WithRetry(cfg)
    \/ \E i \in 1..Len(requests) : RequestResolves(i)
    \/ \E i \in 1..Len(requests), code \in ErrorCodes \ {"TIMEOUT"} : RequestRejects(i, code)
    \/ AttemptTimesOut
    \/ SleepEnds

SpecRetry == InitRetry /\ [][NextRetry]_vars

\* The timers of withTimeout and of sleep fire.
FairSpecRetry ==
    /\ SpecRetry
    /\ WF_vars(AttemptTimesOut)
    /\ WF_vars(SleepEnds)

(***************************************************************************)
(* privacyValidator: the three module-level regular expressions carry the  *)
(* g flag, so RegExp.prototype.test starts its search at the expression's  *)
(* lastIndex and leaves the end of the match, or 0 after a failed search,  *)
(* there.  Positions are counted from 0 as in the code.                    *)
(***************************************************************************)
Chars(s) == {s[i] : i \in 1..Len(s)}
Digits == {"0", "1", "2", "3", "4", "5", "6", "7", "8", "9"}
Letters == Chars(UpperChars) \cup Chars(LowerChars)
\* \w
WordChars == Letters \cup Digits \cup {"_"}
\* [A-Za-z0-9._%+-]
LocalChars == Letters \cup Digits \cup {".", "_", "%", "+", "-"}
\* [A-Za-z0-9.-]
DomainChars == Letters \cup Digits \cup {".", "-"}
\* [A-Z|a-z]
TldChars == Letters \cup {"|"}

NoMatch == 0 - 1

\* the character at position p, "" outside the text
CharAt(text, p) == IF p >= 0 /\ p < Len(text) THEN text[p + 1] ELSE ""

\* \b at position p
WordBoundary(text, p) ==
    (CharAt(text, p - 1) \in WordChars) # (CharAt(text, p) \in WordChars)

\* the end of the longest run of characters of the class that starts at p
RunEnd(text, p, class) ==
    CHOOSE q \in p..Len(text) :
        /\ \A k \in p..(q - 1) : CharAt(text, k) \in class
        /\ CharAt(text, q) \notin class

MaxOf(S) == CHOOSE x \in S : \A y \in S : y <= x

AllDigits(text, p, n) == \A k \in p..(p + n - 1) : CharAt(text, k) \in Digits

\* the length of [-.]? at position p
SepLen(text, p) == IF CharAt(text, p) \in {"-", "."} THEN 1 ELSE 0

\* [A-Z|a-z]{2,}\b from position q: the end of the match
TldEnd(text, q) ==
    LET ends == { e \in (q + 2)..RunEnd(text, q, TldChars) : WordBoundary(text, e) }
    IN IF ends = {} THEN NoMatch ELSE MaxOf(ends)

\* EMAIL_PATTERN matched at position p: the end of the match, or NoMatch
EmailEnd(text, p) ==
    LET at == RunEnd(text, p, LocalChars)
        run == RunEnd(text, at + 1, DomainChars)
        dots == { d \in (at + 2)..(run - 1) :
                     CharAt(text, d) = "." /\ TldEnd(text, d + 1) # NoMatch }
    IN IF ~WordBoundary(text, p) \/ at = p \/ CharAt(text, at) # "@" \/ dots = {}
       THEN NoMatch
       ELSE TldEnd(text, MaxOf(dots) + 1)

\* \d{3}[-.]?\d{4}\b from position q
PhoneTailEnd(text, q) ==
    LET r == q + 3 + SepLen(text, q + 3)
    IN IF AllDigits(text, q, 3) /\ AllDigits(text, r, 4) /\ WordBoundary(text, r + 4)
       THEN r + 4 ELSE NoMatch

\* PHONE_PATTERN matched at position p: the first alternative, then the one
\* with the area code in parentheses
PhoneEnd(text, p) ==
    IF ~WordBoundary(text, p) THEN NoMatch
    ELSE IF AllDigits(text, p, 3)
              /\ PhoneTailEnd(text, p + 3 + SepLen(text, p + 3)) # NoMatch
         THEN PhoneTailEnd(text, p + 3 + SepLen(text, p + 3))
    ELSE IF CharAt(text, p) = "(" /\ AllDigits(text, p + 1, 3) /\ CharAt(text, p + 4) = ")"
         THEN PhoneTailEnd(text, p + 5 + (IF CharAt(text, p + 5) = " " THEN 1 ELSE 0))
    ELSE NoMatch

\* SSN_PATTERN matched at position p
SsnEnd(text, p) ==
    IF /\ WordBoundary(text, p)
       /\ AllDigits(text, p, 3) /\ CharAt(text, p + 3) = "-"
       /\ AllDigits(text, p + 4, 2) /\ CharAt(text, p + 6) = "-"
       /\ AllDigits(text, p + 7, 4) /\ WordBoundary(text, p + 11)
    THEN p + 11 ELSE NoMatch

PatternEnd(pattern, text, p) ==
    CASE pattern = "email" -> EmailEnd(text, p)
      [] pattern = "phone" -> PhoneEnd(text, p)
      [] pattern = "ssn" -> SsnEnd(text, p)

\* RegExp.prototype.test of a global expression whose lastIndex is from
RegExpTest(pattern, text, from) ==
    LET starts == { p \in from..Len(text) : PatternEnd(pattern, text, p) # NoMatch }
    IN IF starts = {}
       THEN [found |-> FALSE, lastIndex |-> 0]
       ELSE [found |-> TRUE,
             lastIndex |-> PatternEnd(pattern, text,
                                      CHOOSE p \in starts : \A q \in starts : p <= q)]

\* lines 18-28: the result and the lastIndex values the call leaves
containsPIIPatterns(text) ==
    IF text = <<>>
    THEN [result |-> FALSE, lastIndex |-> lastIndex]
    ELSE LET hasEmail == RegExpTest("email", text, lastIndex.email)
             hasPhone == RegExpTest("phone", text, lastIndex.phone)
             hasSSN == RegExpTest("ssn", text, lastIndex.ssn)
         IN [result |-> hasEmail.found \/ hasPhone.found \/ hasSSN.found,
             lastIndex |-> [email |-> hasEmail.lastIndex,
                            phone |-> hasPhone.lastIndex,
                            ssn |-> hasSSN.lastIndex]]

\* the strings handed to the validator
PiiTexts ==
    { <<>>,
      <<"h","e","l","l","o">>,
      <<"a","@","b",".","i","o">>,
      <<"a","@","b",".","i","o"," ","c","@","d",".","i","o">>,
      <<"5","5","5","-","1","2","3","-","4","5","6","7">>,
      <<"1","2","3","-","4","5","-","6","7","8","9">> }

InitPii ==
    /\ OrchIdle
    /\ profile = Only(ProfilePool)
    /\ jobs = <<>>
    /\ now = 0
    /\ DedupEmpty
    /\ InsightEmpty
    /\ GenEmpty
    /\ RouteIdle
    /\ UtilIdle

PiiFrame ==
    UNCHANGED <<orchVars, now, dedupVars, insightVars, genVars, routeVars,
                retryVars, asrVars>>

\* part_004 lines 110-113: hasPIIIndicators(data) for a string
HasPIIIndicators(text) ==
    /\ \E r \in { containsPIIPatterns(text) } :
          /\ lastIndex' = r.lastIndex
          /\ seen' = seen \cup { <<text, r.result>> }
    /\ UNCHANGED asserted
    /\ PiiFrame

\* lines 133-136: assertNoPII(data, context) for a string
AssertNoPII(text) ==
    /\ \E r \in { containsPIIPatterns(text) } :
          /\ lastIndex' = r.lastIndex
          /\ seen' = seen \cup { <<text, r.result>> }
          /\ asserted' = [called |-> TRUE, data |-> text, threw |-> r.result]
    /\ PiiFrame

\* lines 101-128: validateTranscriptForOpenAI; String.prototype.replace with
\* a global expression leaves its lastIndex at 0
ValidateTranscriptForOpenAI(text) ==
    /\ \E r \in { containsPIIPatterns(text) } :
          /\ lastIndex' = IF r.result THEN [email |-> 0, phone |-> 0, ssn |-> 0]
                          ELSE r.lastIndex
          /\ seen' = seen \cup { <<text, r.result>> }
    /\ UNCHANGED asserted
    /\ PiiFrame

NextPii ==
    \/ \E text \in PiiTexts : HasPIIIndicators(text)
    \/ \E text \in PiiTexts : AssertNoPII(text)
    \/ \E text \in PiiTexts : ValidateTranscriptForOpenAI(text)

SpecPii == InitPii /\ [][NextPii]_vars

(***************************************************************************)
(* ASRFailureTracker and the SpeechInput component that consults it.  The  *)
(* clock counts minutes; an entry of attempts keeps its timestamp and its  *)
(* success flag (the error type and the transcript length decide nothing). *)
(***************************************************************************)
failureRateThreshold == 50
failureRateWindowMinutes == 5
consecutiveFailureThreshold == 3
maxEntries == 1000
minAttemptsForRateCheck == 5

\* lines 91-96, 121-125: the entries inside the window
recentAttempts(entries, at) ==
    Filter(entries, [i \in 1..Len(entries) |->
                        entries[i].timestamp >= at - failureRateWindowMinutes])

\* lines 89-103: the percentage, rounded down
getFailureRate(entries, at) ==
    IF Len(recentAttempts(entries, at)) = 0 THEN 0
    ELSE (CountTrue([i \in 1..Len(recentAttempts(entries, at)) |->
                        ~recentAttempts(entries, at)[i].success]) * 100)
            \div Len(recentAttempts(entries, at))

\* lines 115-137
shouldDisableSpeechToText(entries, consecutive, at) ==
    IF consecutive >= consecutiveFailureThreshold THEN TRUE
    ELSE IF /\ Len(recentAttempts(entries, at)) >= minAttemptsForRateCheck
            /\ getFailureRate(entries, at) >= failureRateThreshold
         THEN TRUE
    ELSE FALSE

\* lines 218-224
pruneOldEntries(entries) ==
    IF Len(entries) > maxEntries
    THEN SubSeq(entries, Len(entries) - maxEntries + 1, Len(entries))
    ELSE entries

\* lines 54-84, followed by the setIsDisabled(stats.shouldDisable) of the
\* component
TrackAttempt(success) ==
    /\ attempts' = pruneOldEntries(Append(attempts,
                        [timestamp |-> clock, success |-> success]))
    /\ consecutiveFailures' = IF success THEN 0 ELSE consecutiveFailures + 1
    /\ isDisabled' = shouldDisableSpeechToText(attempts', consecutiveFailures', clock)
    /\ reenabled' = (reenabled /\ success)

InitAsr ==
    /\ OrchIdle
    /\ profile = Only(ProfilePool)
    /\ jobs = <<>>
    /\ now = 0
    /\ DedupEmpty
    /\ InsightEmpty
    /\ GenEmpty
    /\ RouteIdle
    /\ UtilIdle

AsrFrame ==
    UNCHANGED <<orchVars, now, dedupVars, insightVars, genVars, routeVars,
                retryVars, piiVars>>

\* SpeechInput.tsx lines 47-61, 146-164: the user starts a recording; the
\* microphone is granted or denied
HandleStartRecording(granted) ==
    /\ recorder = "none"
    /\ Len(attempts) < MaxAttempts
    /\ IF shouldDisableSpeechToText(attempts, consecutiveFailures, clock)
       THEN /\ isDisabled' = TRUE
            /\ UNCHANGED <<attempts, consecutiveFailures, recorder, reenabled>>
       ELSE IF granted
            THEN /\ recorder' = "recording"
                 /\ UNCHANGED <<attempts, consecutiveFailures, isDisabled, reenabled>>
            ELSE /\ TrackAttempt(FALSE)
                 /\ UNCHANGED recorder
    /\ UNCHANGED clock
    /\ AsrFrame

\* SpeechInput.tsx lines 68-143: the recording stops and the transcription
\* succeeds or fails
RecorderStops(success) ==
    /\ recorder = "recording"
    /\ TrackAttempt(success)
    /\ recorder' = "none"
    /\ UNCHANGED clock
    /\ AsrFrame

\* SpeechInput.tsx lines 35-45: the periodic status check
CheckStatus ==
    /\ isDisabled' = shouldDisableSpeechToText(attempts, consecutiveFailures, clock)
    /\ UNCHANGED <<attempts, consecutiveFailures, recorder, clock, reenabled>>
    /\ AsrFrame

\* SpeechInput.tsx lines 194-200 with lines 162-167 of the tracker: the
\* button shown while the input is disabled
HandleReEnable ==
    /\ isDisabled
    /\ consecutiveFailures' = 0
    /\ isDisabled' = FALSE
    /\ reenabled' = TRUE
    /\ UNCHANGED <<attempts, recorder, clock>>
    /\ AsrFrame

\* a minute passes
AsrTick ==
    /\ clock < MaxClock
    /\ clock' = clock + 1
    /\ UNCHANGED <<attempts, consecutiveFailures, isDisabled, recorder, reenabled>>
    /\ AsrFrame

NextAsr ==
    \/ \E granted \in BOOLEAN : HandleStartRecording(granted)
    \/ \E success \in BOOLEAN : RecorderStops(success)
    \/ CheckStatus
    \/ HandleReEnable
    \/ AsrTick

SpecAsr == InitAsr /\ [][NextAsr]_vars

(***************************************************************************)
(* Properties of MatchingOrchestrator.findMatches.                         *)
(***************************************************************************)
AllApproximate(ms) == \A i \in 1..Len(ms) : ms[i].isApproximate
NoneApproximate(ms) == \A i \in 1..Len(ms) : ~ms[i].isApproximate

\* C1: when the semantic call rejects, the returned list is all-approximate
\* and equals what the Keyword Strategy returns on the full job list, for
\* job lists of any length.
C1_FallbackEqualsKeywordOnFullList ==
    winner = "error" =>
        /\ AllApproximate(result)
        /\ result = KeywordFindMatches(profile, jobs)

\* C2: findMatches always eventually resolves with a list and never rejects,
\* whether the oracle succeeds, fails or never responds.
C2_AlwaysResolvesNeverRejects ==
    /\ <>(pc = "done" /\ outcome = "resolved")
    /\ [](outcome # "rejected")

\* C2 witness: the oracle never answered and the timer produced the result.
C2_Witness ==
    /\ pc = "done"
    /\ outcome = "resolved"
    /\ winner = "timeout"
    /\ sem = "pending"
    /\ Len(result) > 0

\* C3: when the timeout wins the race the returned list is the Keyword
\* Strategy's, and no later completion of the abandoned semantic call changes
\* the list already returned.
C3_TimeoutResultIsFinal ==
    /\ [](winner = "timeout" =>
            /\ outcome = "resolved"
            /\ result = KeywordFindMatches(profile, jobsToProcess(jobs)))
    /\ [][pc = "done" => (result' = result /\ outcome' = outcome)]_vars

\* C3 witness: the timeout won, and the abandoned call later resolved with a
\* different, non-empty list.
C3_Witness ==
    /\ winner = "timeout"
    /\ sem = "resolved"
    /\ Len(semMatches) > 0
    /\ Len(result) > 0
    /\ semMatches # result

\* C4: if the semantic call resolves before the timeout fires, every returned
\* element has isApproximate = false and the Keyword Strategy is not invoked.
C4_SemanticWinIsExact ==
    winner = "semantic" => (NoneApproximate(result) /\ kwCalls = 0)

\* C4 witness: the semantic call won with a non-empty list; the timer fired later.
C4_Witness ==
    /\ winner = "semantic"
    /\ Len(result) > 1
    /\ timer = "fired"

\* C5: a returned list never mixes the two isApproximate values: it is the
\* keyword list (all true) or the semantic list (all false).
C5_NoBlending ==
    pc = "done" =>
        \/ (AllApproximate(result)
            /\ result = KeywordFindMatches(profile, jobsToProcess(jobs)))
        \/ (NoneApproximate(result) /\ result = semMatches)

\* C5 witness: a fallback list holding matches with different scores.
C5_Witness ==
    /\ pc = "done"
    /\ winner \in {"timeout", "error"}
    /\ Len(result) > 1
    /\ result[1].score >= 50
    /\ result[Len(result)].score < 50

(***************************************************************************)
(* Properties of RequestDeduplicationCache.                                *)
(***************************************************************************)
\* C6: two concurrent getOrExecute calls whose key objects have the same
\* fields and values, in any key order, invoke the executor once and share
\* that execution: a call made while an execution started for an equal key
\* is still running is answered by that execution.
C6_ConcurrentEqualKeysShareExecution ==
    \A i \in 1..Len(callers) : \A j \in 1..Len(callers) :
        ( /\ i < j
          /\ SameFields(callers[i].params, callers[j].params)
          /\ callers[i].path = "execute"
          /\ callers[i].exec \in callers[j].running )
        => callers[j].exec = callers[i].exec

\* C7: at most one executor invocation is running per key hash, in every
\* reachable state.
C7_OneExecutionPerHash ==
    \A e1 \in 1..Len(execs) : \A e2 \in 1..Len(execs) :
        ( /\ execs[e1].status = "running"
          /\ execs[e2].status = "running"
          /\ execs[e1].hash = execs[e2].hash )
        => e1 = e2

\* C8: the TTL of a cached entry runs from the completion of its execution:
\* a call that finds the entry less than ttl after that completion is
\* answered from the cache.
C8_TtlFromCompletion ==
    \A j \in 1..Len(callers) :
        ( /\ callers[j].cached # 0
          /\ callers[j].at - execs[callers[j].cached].completedAt
                < execs[callers[j].cached].ttl )
        => callers[j].path = "cached"

\* C9: when an execution fails its in-flight marker is removed, the cache is
\* left unchanged, every caller sharing the execution gets the error, and
\* the next getOrExecute for the key invokes the executor again.
C9_FailureIsNotCached ==
    [][\A e \in 1..Len(execs) :
          ( /\ execs[e].status = "running"
            /\ execs'[e].status = "failed" )
          => /\ ~Has(pendingRequests', execs[e].hash)
             /\ dcache' = dcache
             /\ \A c \in 1..Len(callers) :
                   callers[c].exec = e =>
                       (callers'[c].settled /\ callers'[c].got = "error")
             /\ CallPath(execs[e].hash)' = "execute"]_vars

(***************************************************************************)
(* Properties of CompanyInsightsCache.                                     *)
(***************************************************************************)
\* C10: after set(jobId, description, insight), a get(jobId, description)
\* made before expiry and eviction returns that insight; a get with the same
\* jobId and a description with a different hash is not served by it: get
\* returns an insight only if it was stored under the same jobId and the
\* same description hash, and absent otherwise.
C10_SetGetRoundTrip ==
    lastGet.op = "get" =>
        /\ lastGet.ret # 0 =>
              /\ sets[lastGet.ret].jobId = lastGet.jobId
              /\ DescHash(sets[lastGet.ret].description) = DescHash(lastGet.description)
        /\ \A n \in 1..Len(sets) :
              ( /\ sets[n].jobId = lastGet.jobId
                /\ sets[n].description = lastGet.description
                /\ now - sets[n].at < INSIGHT_CACHE_TTL_MS
                /\ sets[n].live )
              => lastGet.ret = n

\* C10 witness: a hit on one description of a job while an insight stored
\* for the same job under a description with another hash is in the cache.
C10_Witness ==
    /\ lastGet.op = "get"
    /\ lastGet.ret # 0
    /\ \E n \in 1..Len(sets) :
          /\ n # lastGet.ret
          /\ sets[n].live
          /\ sets[n].jobId = lastGet.jobId
          /\ DescHash(sets[n].description) # DescHash(lastGet.description)

\* C11: the entry a set() at capacity evicts is the least recently used one,
\* a set() and a get() hit both counting as a use: whenever set() drops an
\* entry to make room, that entry is the one whose last use is the oldest.
C11_EvictsLeastRecentlyUsed ==
    [][ lastGet'.op = "set" =>
          \A i \in 1..Len(icache) :
              ~Has(icache', icache[i].hash) => icache[i].hash = Head(used) ]_vars

\* C12: the cache never holds more than MAX_CACHE_SIZE entries; a set() of a
\* new key at capacity removes exactly one entry, and a set() of a key that
\* is already present removes none.
C12_CapacityBound ==
    /\ Len(icache) <= MAX_CACHE_SIZE
    /\ lastGet.op = "set" =>
          \E key \in { generateCacheKey(lastGet.jobId, lastGet.description) } :
          \E gone \in { { i \in 1..Len(lastGet.before) :
                            ~Has(icache, lastGet.before[i].hash) } } :
             /\ Has(icache, key)
             /\ Has(lastGet.before, key) => gone = {}
             /\ (~Has(lastGet.before, key) /\ Len(lastGet.before) >= MAX_CACHE_SIZE)
                   => Cardinality(gone) = 1

\* C12 witness: a set() of a new key has just been made on a full cache.
C12_Witness ==
    /\ lastGet.op = "set"
    /\ Len(lastGet.before) = MAX_CACHE_SIZE
    /\ ~Has(lastGet.before, generateCacheKey(lastGet.jobId, lastGet.description))
    /\ Len(icache) = MAX_CACHE_SIZE

\* C13: get() returns an insight only if it was stored less than the TTL
\* before the lookup; a get() at or after the expiry of the entry returns
\* null and removes the entry; pruneExpired() removes exactly the entries
\* stored at least the TTL ago and leaves the others as they were.
C13_ExpiryOnGetAndPrune ==
    /\ lastGet.op = "get" =>
          \E key \in { generateCacheKey(lastGet.jobId, lastGet.description) } :
             /\ lastGet.ret # 0 =>
                   /\ Has(lastGet.before, key)
                   /\ At(lastGet.before, key).insight = lastGet.ret
                   /\ now - At(lastGet.before, key).timestamp < INSIGHT_CACHE_TTL_MS
             /\ ( /\ Has(lastGet.before, key)
                  /\ now - At(lastGet.before, key).timestamp >= INSIGHT_CACHE_TTL_MS )
                   => lastGet.ret = 0 /\ ~Has(icache, key)
    /\ lastGet.op = "prune" =>
          icache = Filter(lastGet.before,
                          [i \in 1..Len(lastGet.before) |->
                              now - lastGet.before[i].timestamp < INSIGHT_CACHE_TTL_MS])

\* C13 witness: pruneExpired() has just removed an expired entry and kept an
\* unexpired one.
C13_Witness ==
    /\ lastGet.op = "prune"
    /\ icache # <<>>
    /\ Len(icache) < Len(lastGet.before)

(***************************************************************************)
(* Properties of MatchingOrchestrator.generateCompanyInsights.             *)
(***************************************************************************)
\* history: the summarization of proc p failed or timed out
SummaryFailed(p) ==
    \/ procs[p].timer = "fired"
    \/ /\ procs[p].timer = "stale"
       /\ Rejected(procs[p].caller)

\* the entry the result map of batch b holds for job: the one its callback put
EntryOf(b, job) ==
    { procs[p].entry : p \in { q \in 1..Len(procs) :
                                  /\ procs[q].batch = b
                                  /\ procs[q].job = job
                                  /\ procs[q].pc = "done"
                                  /\ procs[q].how # "thrown" } }

\* C14: generateCompanyInsights always resolves, never rejects, and its map
\* has an entry for every job of the batch whatever summarizations fail or
\* time out; the entry of a job whose summarization failed is the fallback
\* made of its own description, company size and industry, and the entry of
\* a job whose summarization succeeded is the summary of its own description.
C14_FailuresAreIsolated ==
    /\ [](\A b \in 1..Len(batches) :
            /\ batches[b].status # "rejected"
            /\ batches[b].status = "resolved" =>
                  \A i \in 1..Len(batches[b].jobs) :
                      EntryOf(b, batches[b].jobs[i]) # {})
    /\ [](\A p \in 1..Len(procs) :
            (procs[p].pc = "done" /\ procs[p].how # "hit") =>
                IF SummaryFailed(p)
                THEN /\ procs[p].entry.kind = "fallback"
                     /\ View(procs[p].entry) =
                           [companySize |-> procs[p].job.companySize,
                            industries |-> <<procs[p].job.industry>>,
                            description |->
                               JoinSentences(Slice(Sentences(procs[p].job.description), 0, 2))]
                ELSE /\ procs[p].entry.kind = "summary"
                     /\ View(procs[p].entry).description =
                           JoinSentences(Slice(
                              CombinedSentences(
                                 <<procs[p].job.company, " - ", procs[p].job.industry>>,
                                 procs[p].job.description), 0, 2)))
    /\ []<>(\A b \in 1..Len(batches) : batches[b].status = "resolved")

\* C14 witness: a resolved batch of two jobs in which the summarization of
\* one job failed and that of the other succeeded.
C14_Witness ==
    \E b \in 1..Len(batches) :
        /\ batches[b].status = "resolved"
        /\ \E p \in 1..Len(procs) : \E q \in 1..Len(procs) :
              /\ procs[p].batch = b /\ procs[q].batch = b
              /\ procs[p].how = "fallback" /\ SummaryFailed(p)
              /\ procs[q].how = "summary" /\ ~SummaryFailed(q)

\* C15: the insight generateCompanyInsights puts in its map for a job, and
\* the insight the Company Insight Cache holds for the job, have the
\* companySize and the industries of that job, whatever other jobs are
\* processed in the same or in other batches.
C15_OwnCompanyFields ==
    /\ \A p \in 1..Len(procs) :
          (procs[p].pc = "done" /\ procs[p].how \in {"summary", "fallback"}) =>
              /\ View(procs[p].entry).companySize = procs[p].job.companySize
              /\ View(procs[p].entry).industries = <<procs[p].job.industry>>
    /\ \A i \in 1..Len(icache) : \A job \in InsightJobs :
          icache[i].hash = InsightKey(job) =>
              /\ View(icache[i].insight).companySize = job.companySize
              /\ View(icache[i].insight).industries = <<job.industry>>

\* C16: a job for which an insight, summary or fallback, was stored under
\* the same job id and description less than the TTL ago and was not evicted
\* since is answered from the Company Insight Cache: no summarization call
\* is issued for it.
C16_CachedInsightMeansNoCall ==
    \A p \in 1..Len(procs) :
        procs[p].covered # {} =>
            /\ procs[p].how = "hit"
            /\ procs[p].caller = 0
            /\ procs[p].timer = "none"

\* C16 witness: a job answered from the cache by the fallback an earlier
\* failed attempt stored.
C16_Witness ==
    \E p \in 1..Len(procs) : \E q \in procs[p].covered :
        /\ procs[p].how = "hit"
        /\ procs[q].how = "fallback"
        /\ procs[p].caller = 0

(***************************************************************************)
(* Properties of the scores and of the order of the result.                *)
(***************************************************************************)
\* C17: the score of a Keyword Strategy MatchResult is the sum of the six
\* scoreBreakdown fields the Feature Extractor computes for the profile and
\* the job, and each of the six fields is a non-negative integer.
C17_KeywordScoreIsSumOfBreakdown ==
    winner = "keyword" =>
        \A i \in 1..Len(result) :
            \E b \in { calculateScoreBreakdown(profile, result[i].job) } :
               /\ result[i].score =
                     b.skills + b.role + b.industry + b.companySize
                     + b.remote + b.experience
               /\ {b.skills, b.role, b.industry, b.companySize, b.remote,
                   b.experience} \subseteq Nat

\* C17 witness: a keyword match whose six fields are all positive.
C17_Witness ==
    /\ winner = "keyword"
    /\ \E i \in 1..Len(result) :
          \E b \in { calculateScoreBreakdown(profile, result[i].job) } :
             /\ b.skills > 0 /\ b.role > 0 /\ b.industry > 0
             /\ b.companySize > 0 /\ b.remote > 0 /\ b.experience > 0

\* C18: every MatchResult a strategy returns has an integer score between 0
\* and 100.
C18_ScoreWithin0And100 ==
    \A i \in 1..Len(result) : result[i].score \in 0..100

\* C19: every MatchResult in the list findMatches returns has a score above
\* 0, on the semantic path as on the keyword path.
C19_NoZeroScoreInResult ==
    \A i \in 1..Len(result) : result[i].score > 0

\* the list is ordered by score descending, equal scores in the order of
\* their jobs in the input list, which numbers its jobs 1, 2, ...
Ordered(ms) ==
    \A i \in 1..Len(ms) : \A j \in 1..Len(ms) :
        i < j =>
            \/ ms[i].score > ms[j].score
            \/ (ms[i].score = ms[j].score /\ ms[i].job.id < ms[j].job.id)

\* C20: the list findMatches returns, and the list each strategy returns,
\* has at most 10 elements and is ordered by score descending, elements with
\* equal scores in the order of their jobs in the input list.
C20_TopTenOrderedStable ==
    /\ Len(result) <= 10 /\ Ordered(result)
    /\ Len(semMatches) <= 10 /\ Ordered(semMatches)
    /\ pc = "done" =>
          \E kw \in { KeywordFindMatches(profile, jobsToProcess(jobs)) } :
             Len(kw) <= 10 /\ Ordered(kw)

\* C20 witness: a returned list of 10 matches, cut from more than 10 scored
\* jobs, with two equal scores next to each other.
C20_Witness ==
    /\ pc = "done"
    /\ Len(result) = 10
    /\ Len(jobs) > 10
    /\ \E i \in 1..9 : result[i].score = result[i + 1].score
    /\ \E i \in 1..9 : result[i].score > result[i + 1].score

\* C21: the list the Keyword Strategy returns has at most 10 elements and
\* its scores are strictly descending: each score is greater than the next.
C21_KeywordStrictlyDescending ==
    winner \in {"timeout", "error"} =>
      \E result_kw \in { KeywordFindMatches(profile, jobsToProcess(jobs)) } :
        /\ Len(result_kw) <= 10
        /\ \A i \in 1..(Len(result_kw) - 1) : result_kw[i].score > result_kw[i + 1].score
        /\ Len(result) <= 10
        /\ \A i \in 1..(Len(result) - 1) : result[i].score > result[i + 1].score

\* the sentence openings that name each factor, real and generic
FactorSentences ==
    [skills |-> {"Matched on skills: ", "Skills match: ",
                 "Some skill overlap with job requirements"},
     role |-> {"Role matches your preferences: ",
               "Role may align with your career goals"},
     industry |-> {"Industry matches: ", "Industry may offer growth opportunities"},
     experience |-> {"Experience level ",
                     "Experience level may be suitable for growth"},
     companySize |-> {"Company size matches your preference: "},
     remote |-> {"Remote work preference matches: ",
                 "Remote work preference partially matches"}]

FactorsIn(explanation) ==
    { f \in DOMAIN FactorSentences :
        \E i \in 1..Len(explanation) : explanation[i] \in FactorSentences[f] }

\* C22: every MatchResult of the Keyword Strategy and of the Semantic Strategy
\* has an explanation whose sentences name at least 3 distinct factors among
\* skills, role, industry, experience, companySize and remote; the sentence
\* about the semantic-similarity band does not count.
C22_ExplanationNamesThreeFactors ==
    \A i \in 1..Len(result) : Cardinality(FactorsIn(result[i].explanation)) >= 3

\* C23: in every MatchResult of the Semantic Strategy the six fields of
\* features.scoreBreakdown add up exactly to the score, whether the
\* deterministic breakdown was rescaled or the fixed 40/20/15/10/10/5
\* distribution was used.
C23_SemanticBreakdownSumsToScore ==
    winner = "semantic" =>
      \A i \in 1..Len(result) :
        \E b \in { result[i].features.scoreBreakdown } :
          b.skills + b.role + b.industry + b.companySize + b.remote + b.experience
            = result[i].score

\* C25: one invocation of MatchingOrchestrator.findMatches sends at most one
\* request to the similarity API; the semantic path is never retried, whatever
\* error or timeout the call ends with.
C25_AtMostOneSimilarityCall ==
    simCalls <= 1

\* C24: the handler validates the anonymized profile before matching and
\* enforces the result: findMatches is called only with a profile that
\* passed validateAnonymizedProfile.
C24_OnlyValidProfilesReachMatching ==
    pc # "idle" => validation.isValid

\* C26: when the orchestrator fell back to the Keyword Strategy, the response
\* of /api/matches has isApproximate = true and carries the approximate-results
\* message, whatever the number of matches, none included.
C26_FallbackResponseIsApproximate ==
    (stage = "responded" /\ pc = "done" /\ winner \in {"timeout", "error"}) =>
      /\ response.isApproximate
      /\ response.message = ApproximateMessage

\* the features the last buildMatchFeatures call returned
Extracted == pc = "done" /\ winner = "extractor"

C28_TableWhenKnownYearsWhenUnknown ==
    Extracted =>
      \E e \in { result[1].features.experienceMatch } :
        /\ e.jobLevel # "unknown" =>
              e.alignment = alignmentMap[profile.seniority][e.jobLevel]
        /\ e.jobLevel = "unknown" =>
              ((e.alignment # "mismatch") <=>
                 \/ profile.yearsExperience <= 2 /\ profile.seniority \in {"entry", "junior"}
                 \/ /\ 3 <= profile.yearsExperience
                    /\ profile.yearsExperience <= 5
                    /\ profile.seniority \in {"junior", "mid"}
                 \/ profile.yearsExperience > 5
                    /\ profile.seniority \in {"mid", "senior", "lead"})

\* a senior profile with no years is aligned with a senior job: the years
\* alone would have said mismatch
C28_Witness ==
    /\ Extracted
    /\ profile.seniority = "senior"
    /\ profile.yearsExperience = 0
    /\ result[1].features.experienceMatch.jobLevel = "senior"
    /\ result[1].features.experienceMatch.alignment = "senior"

\* title + role + description of the job, lower-cased
Combined(job) ==
    ToLowerCase(job.title) \o <<" ">> \o ToLowerCase(job.role)
    \o <<" ">> \o ToLowerCase(job.description)

Hits(text, keywords) == \E k \in keywords : Includes(text, k)

\* C29 as stated: for a senior profile and any job whose title, role or
\* description contains "lead", the alignment is "senior", whatever the years.
C29_SeniorAlignsWithAnyLeadText ==
    (Extracted /\ profile.seniority = "senior"
       /\ Hits(Combined(jobs[1]), {<<"l","e","a","d">>}))
      => result[1].features.experienceMatch.alignment = "senior"

\* C29 amended: for a senior profile and a job whose title, role or
\* description contains "lead" and none of entry, intern, graduate, junior
\* and jr, the alignment is "senior", whatever the years.
C29_SeniorAlignsWithLeadText ==
    (Extracted /\ profile.seniority = "senior"
       /\ Hits(Combined(jobs[1]), {<<"l","e","a","d">>})
       /\ ~Hits(Combined(jobs[1]), {<<"e","n","t","r","y">>, <<"i","n","t","e","r","n">>, <<"g","r","a","d","u","a","t","e">>, <<"j","u","n","i","o","r">>, <<"j","r">>}))
      => result[1].features.experienceMatch.alignment = "senior"

\* the word is in the description only and the profile has no years
C29_Witness ==
    /\ Extracted
    /\ profile.seniority = "senior"
    /\ profile.yearsExperience = 0
    /\ Includes(ToLowerCase(jobs[1].description), <<"l","e","a","d">>)
    /\ ~Includes(ToLowerCase(jobs[1].title), <<"l","e","a","d">>)
    /\ ~Hits(Combined(jobs[1]), {<<"e","n","t","r","y">>, <<"i","n","t","e","r","n">>, <<"g","r","a","d","u","a","t","e">>, <<"j","u","n","i","o","r">>, <<"j","r">>})
    /\ result[1].features.experienceMatch.alignment = "senior"

\* the keyword classes in the order they are tried
LevelClasses ==
    << [level |-> "entry", keywords |-> {<<"e","n","t","r","y">>, <<"i","n","t","e","r","n">>, <<"g","r","a","d","u","a","t","e">>}],
       [level |-> "junior", keywords |-> {<<"j","u","n","i","o","r">>, <<"j","r">>}],
       [level |-> "senior", keywords |-> {<<"s","e","n","i","o","r">>, <<"s","r">>, <<"l","e","a","d">>, <<"p","r","i","n","c","i","p","a","l">>}],
       [level |-> "lead", keywords |-> {<<"l","e","a","d">>, <<"p","r","i","n","c","i","p","a","l">>, <<"a","r","c","h","i","t","e","c","t">>}],
       [level |-> "mid", keywords |-> {<<"m","i","d">>, <<"m","i","d","d","l","e">>}] >>

\* C30: the job level is the first class, in the order entry, junior, senior,
\* lead, mid, one of whose keywords occurs in the lower-cased title + role +
\* description, else unknown; lead is returned only for a text that contains
\* "architect" and no keyword of the entry, junior and senior classes.
C30_FirstMatchingClass ==
    Extracted =>
      \E text \in { Combined(jobs[1]) },
         level \in { result[1].features.experienceMatch.jobLevel } :
        /\ \E hit \in { { c \in 1..Len(LevelClasses) :
                             Hits(text, LevelClasses[c].keywords) } } :
              level = IF hit = {} THEN "unknown"
                      ELSE LevelClasses[CHOOSE c \in hit : \A d \in hit : c <= d].level
        /\ level = "lead" =>
              /\ Includes(text, <<"a","r","c","h","i","t","e","c","t">>)
              /\ \A c \in 1..3 : ~Hits(text, LevelClasses[c].keywords)

\* a text with keywords of the lead and of the mid class is a lead job
C30_Witness ==
    /\ Extracted
    /\ Hits(Combined(jobs[1]), LevelClasses[4].keywords)
    /\ Hits(Combined(jobs[1]), LevelClasses[5].keywords)
    /\ result[1].features.experienceMatch.jobLevel = "lead"

\* C31: every job of the input list is scored: whatever the length of the
\* list, no job left out of the list findMatches returned has a strictly
\* higher score, under the strategy that produced the list, than a job in it
\* (stated for the lists the Keyword Strategy produced, where the score of
\* every input job is defined).
C31_NoBetterJobLeftOut ==
    (pc = "done" /\ winner \in {"timeout", "error"}) =>
      \A j \in 1..Len(jobs) :
        (\A r \in 1..Len(result) : result[r].job.id # jobs[j].id) =>
          \A r \in 1..Len(result) :
            KeywordMatch(profile, jobs[j]).score <= result[r].score

\* the callback of proc p lost the race against its timer
TimedOut(p) ==
    procs[p].pc = "done" /\ procs[p].how = "fallback" /\ procs[p].timer = "fired"

\* C32: when the summarization call of a job loses the race against the 5 s
\* timer, the fallback insight is what is put in the result map and in the
\* Company Insight Cache for that job, and from then on the entry of the
\* result map does not change and the cache entry is changed only by the
\* lookup or the store of another callback, never by the abandoned call
\* completing.
C32_LateSummaryNeverReplacesFallback ==
    [][\A p \in 1..Len(procs) :
         /\ (procs[p].pc = "racing" /\ procs'[p].pc = "done" /\ procs'[p].timer = "fired") =>
              /\ procs'[p].entry = createFallbackInsight(procs[p].job)
              /\ Has(icache', InsightKey(procs[p].job))
              /\ At(icache', InsightKey(procs[p].job)).insight
                   = createFallbackInsight(procs[p].job)
         /\ TimedOut(p) =>
              /\ procs'[p].entry = procs[p].entry
              /\ procs'[p].how = "fallback"
              /\ ( /\ Len(procs') = Len(procs)
                   /\ \A q \in 1..Len(procs) :
                        q # p => ~(procs[q].pc = "racing" /\ procs'[q].pc = "done")
                   /\ Has(icache, InsightKey(procs[p].job)) ) =>
                     /\ Has(icache', InsightKey(procs[p].job))
                     /\ At(icache', InsightKey(procs[p].job)).insight
                          = At(icache, InsightKey(procs[p].job)).insight
      ]_vars

\* the abandoned call of a timed-out callback has completed and the fallback
\* is still in the result map and in the cache
C32_Witness ==
    \E p \in 1..Len(procs) :
        /\ TimedOut(p)
        /\ execs[callers[procs[p].caller].exec].status = "ok"
        /\ procs[p].entry = createFallbackInsight(procs[p].job)
        /\ Has(icache, InsightKey(procs[p].job))
        /\ At(icache, InsightKey(procs[p].job)).insight = procs[p].entry

\* C33: withRetry ends after at most maxRetries + 1 attempts.  A non-retryable
\* error ends it with no further attempt, a retryable one is followed by a
\* sleep of retryDelayMs * 2^attempt and another attempt, except on the last
\* attempt, after which the last error is thrown; a successful attempt
\* returns with no further attempt.
C33_WithRetryTerminates ==
    /\ [][ /\ Len(requests') <= config'.maxRetries + 1
           /\ (rpc = "awaiting" /\ rpc' = "thrown") =>
                 /\ lastError' \in {"INVALID_RESPONSE", "UNKNOWN"} \/ attempt = config.maxRetries
                 /\ requests'[Len(requests')].status = "rejected" \/ lastError' = "TIMEOUT"
           /\ (rpc = "awaiting" /\ rpc' = "sleeping") =>
                 /\ lastError' \in {"TIMEOUT", "SERVICE_UNAVAILABLE"}
                 /\ attempt < config.maxRetries
                 /\ slept' = Append(slept, config.retryDelayMs * Pow(2, attempt))
           /\ (rpc = "awaiting" /\ rpc' = "returned") =>
                 requests'[Len(requests')].status = "resolved"
           /\ rpc \in {"returned", "thrown"} =>
                 /\ rpc' = rpc
                 /\ Len(requests') = Len(requests)
                 /\ lastError' = lastError
                 /\ slept' = slept
           /\ Len(requests') > Len(requests) =>
                 /\ Len(requests') = Len(requests) + 1
                 /\ rpc = "idle" \/ (rpc = "sleeping" /\ attempt' = attempt + 1)
         ]_vars
    /\ (rpc = "awaiting") ~> (rpc \in {"returned", "thrown"})

C33_Witness ==
    /\ rpc = "thrown"
    /\ Len(requests) = config.maxRetries + 1
    /\ config.maxRetries = 2
    /\ slept = <<1000, 2000>>
    /\ lastError = "SERVICE_UNAVAILABLE"

Outstanding == { i \in 1..Len(requests) : requests[i].status = "outstanding" }

C35_SkillScoreWithinTotalPossible ==
    Extracted =>
      /\ result[1].features.skillMatch.score <= result[1].features.skillMatch.totalPossible
      /\ Len(result[1].features.skillMatch.matched) <= Len(jobs[1].requiredSkills)

\* two key objects with the same property names and, under each name, the
\* same string or nested objects with the same properties
SameKey(k1, k2) ==
    /\ {k1[i][1] : i \in 1..Len(k1)} = {k2[i][1] : i \in 1..Len(k2)}
    /\ \A i \in 1..Len(k1) :
          LET v1 == k1[i][2]
              v2 == ValueOf(k2, k1[i][1])
          IN /\ v1.kind = v2.kind
             /\ IF v1.kind = "str"
                THEN v1.v = v2.v
                ELSE {<<v1.fields[m][1], v1.fields[m][2].v>> : m \in 1..Len(v1.fields)}
                     = {<<v2.fields[m][1], v2.fields[m][2].v>> : m \in 1..Len(v2.fields)}

\* C36: getOrExecute answers a call from an execution in flight or from a
\* cached result only if that execution was started for a key object equal
\* to the caller's in every field, nested fields included, up to key order.
C36_SharedOnlyBetweenEqualKeys ==
    \A i \in 1..Len(callers) : \A j \in 1..Len(callers) :
        ( /\ callers[i].path = "execute"
          /\ \/ callers[j].path = "joined" /\ callers[j].exec = callers[i].exec
             \/ callers[j].path = "cached" /\ callers[j].got = callers[i].exec )
        => SameKey(callers[i].params, callers[j].params)

\* C37: the content of a cached insight is fixed when it is stored: a step
\* that makes no set call for a key leaves the field values a get for that
\* key returns as they were, whatever callbacks of other jobs run in it.
C37_CachedInsightContentIsFixed ==
    [][\A i \in 1..Len(icache) :
          ( /\ Has(icache', icache[i].hash)
            /\ ~\E p \in 1..Len(procs) :
                   /\ procs[p].pc = "racing"
                   /\ procs'[p].pc = "done"
                   /\ InsightKey(procs[p].job) = icache[i].hash )
          => View(At(icache, icache[i].hash).insight)' = View(icache[i].insight)
      ]_vars

\* the text holds an email address, a phone number or an SSN somewhere
HoldsPattern(text) ==
    \E pattern \in {"email", "phone", "ssn"} : \E p \in 0..Len(text) :
        PatternEnd(pattern, text, p) # NoMatch

\* C38: containsPIIPatterns(text) depends only on text: all calls with one
\* text return the same result, and assertNoPII throws on every call for a
\* string that holds an email, phone or SSN pattern.
C38_ContainsPIIDependsOnlyOnText ==
    /\ \A x \in seen : \A y \in seen : x[1] = y[1] => x[2] = y[2]
    /\ (asserted.called /\ HoldsPattern(asserted.data)) => asserted.threw

\* C39: after resetFailureTracking(), shouldDisableSpeechToText() returns
\* false until a further failed attempt is tracked, whatever was tracked
\* before the reset, so the status check leaves the speech input enabled.
C39_ReEnableLastsUntilNextFailure ==
    reenabled => ~shouldDisableSpeechToText(attempts, consecutiveFailures, clock)

====
